---- MODULE Spec2Model ----
(***************************************************************************)
(* Model of the caching layer of the Multimodal Pipeline:                  *)
(*   pipeline_cache.py  (make_cache_key / get_cached / set_cached)         *)
(*   cache_manager.py   (CacheManager)                                     *)
(*   content_cache.py   (ContentCache)                                     *)
(* and of the request flows that use it:                                   *)
(*   api_server.generate, quick_start.generate_long,                       *)
(*   ContentScriptGenerator.generate, cli._extract_and_print_shorts,       *)
(* of llm_client.call_llm, of the request validation and dry-run paths of  *)
(* the entry points, and of shorts_extractor.ShortsExtractor.              *)
(***************************************************************************)
EXTENDS Integers, Sequences, FiniteSets, TLC

VARIABLES
    kIn1, kIn2, kOut,            \* key functions: two input mappings, computed keys
    files, enabled, hasKey,      \* the cache directory tree, Config.ENABLE_CACHE,
                                 \* whether an LLM credential is configured
    lastOp, amap,                \* last cache operation, the map the cache stands for
    pc, req, res, nCalls, out, late,  \* per-request state of the flows
    nReq, completed, payers, fresh, latePaid, lastWriter, \* history of the requests
    wr,                          \* a cache write in progress (file opened, not yet dumped)
    llm,                         \* one call of call_llm / _call_openai
    ep,                          \* one run of an entry point (validation, dry run)
    sx,                          \* one call of ShortsExtractor.extract_shorts
    pf,                          \* one application of a function to drawn arguments
    rl                           \* the rate limiter: _request_log, the clock, the checks in progress

keyVars   == <<kIn1, kIn2, kOut>>
storeVars == <<files, enabled, hasKey, lastOp, amap>>
procVars  == <<pc, req, res, nCalls, out, late>>
histVars  == <<nReq, completed, payers, fresh, latePaid, lastWriter>>
flowVars  == <<pc, req, res, nCalls, out, late,
               nReq, completed, payers, fresh, latePaid, lastWriter>>
extVars   == <<wr, llm, ep, sx, pf, rl>>
vars      == <<kIn1, kIn2, kOut, files, enabled, hasKey, lastOp, amap,
               pc, req, res, nCalls, out, late,
               nReq, completed, payers, fresh, latePaid, lastWriter,
               wr, llm, ep, sx, pf, rl>>

(***************************************************************************)
(* Python values.  A value is a tagged record; records of different tags   *)
(* have different field names, so they are never equal.                    *)
(***************************************************************************)
PyNone     == [t |-> "none"]
PyStr(s)   == [t |-> "str", s |-> s]
PyInt(n)   == [t |-> "int", n |-> n]
PyBool(b)  == [t |-> "bool", b |-> b]
PyList(xs) == [t |-> "list", xs |-> xs]
PyTuple(xs) == [t |-> "tuple", tx |-> xs]
PyDict(f)  == [t |-> "dict", kv |-> f]
\* an instance of a class json does not know (a Path, a pydantic model ...),
\* identified by what str() returns for it
PyObj(r)   == [t |-> "obj", repr |-> r]

\* JSON text, as the tree of its tokens
JNull      == [j |-> "null"]
JString(s) == [j |-> "string", s |-> s]
JNumber(n) == [j |-> "number", n |-> n]
JBool(b)   == [j |-> "bool", b |-> b]
JArray(xs) == [j |-> "array", xs |-> xs]
JObject(f) == [j |-> "object", kv |-> f]
\* what json.dump leaves behind / raises when it meets a value it cannot encode
JTypeError == [j |-> "TypeError"]

(***************************************************************************)
(* Cache keys: json.dumps(fields, sort_keys=True, default=str) + sha256.   *)
(* A field mapping is a sequence of <<name, value>> pairs with distinct    *)
(* names, in insertion (keyword-argument) order.                           *)
(***************************************************************************)
MaxFields == 2

\* the field names used by the call sites, in lexicographic order
FieldNames == <<"channel", "count", "duration", "ideas_count", "model", "n", "niche",
                "output", "preset", "script_prefix", "shorts_count", "theme", "tier",
                "topic", "type", "week">>

\* the fields of the key built in test_pipeline_cache
TestFieldNames == {"preset", "theme", "tier"}

NameRank(n) == CHOOSE i \in 1..Len(FieldNames) : FieldNames[i] = n

\* field values: strings, and an object json cannot encode natively
FieldValues == {PyStr("a"), PyStr("b"), PyObj("a")}

\* default=str
DefaultStr(v) == PyStr(v.repr)

\* json encoding of one scalar field value under default=str
DumpsValue(v) ==
    CASE v.t = "str"  -> JString(v.s)
      [] v.t = "int"  -> JNumber(v.n)
      [] v.t = "bool" -> JBool(v.b)
      [] v.t = "none" -> JNull
      [] v.t = "obj"  -> JString(DefaultStr(v).s)

\* sort_keys=True: the pairs of m in the order of their names
SortKeys(m) ==
    [i \in 1..Len(m) |->
        CHOOSE p \in {m[k] : k \in 1..Len(m)} :
            Cardinality({q \in {m[k] : k \in 1..Len(m)} :
                            NameRank(q[1]) < NameRank(p[1])}) = i - 1]

\* a plausible slip: json.dumps(kwargs, default=str) without sort_keys
DumpsUnsorted(m) ==
    [i \in 1..Len(m) |-> <<m[i][1], DumpsValue(m[i][2])>>]

\* a plausible slip: hashing the sorted field names only
DumpsNamesOnly(m) ==
    [i \in 1..Len(m) |-> <<SortKeys(m)[i][1], JNull>>]

\* json.dumps(m, sort_keys=True, default=str): the serialised text
Dumps(m) ==
    [i \in 1..Len(m) |-> <<SortKeys(m)[i][1], DumpsValue(SortKeys(m)[i][2])>>]

\* hashlib.sha256(text).hexdigest(), taken as injective on the text
Sha256(text) == [sha256 |-> text]

\* hexdigest()[:16], likewise taken as injective
Sha256Prefix16(text) == [sha256 |-> text, chars |-> 16]

make_cache_key(m) == Sha256(Dumps(m))

CacheManager_make_key(m) == Sha256Prefix16(Dumps(m))

ContentCache_key_hash(m) == Sha256(Dumps(m))


(***************************************************************************)
(* json.dump / json.load on payloads.                                      *)
(***************************************************************************)
RECURSIVE Encode(_, _)
\* json.dump(v) (dflt: default=str was given); JTypeError when v holds a value
\* json cannot encode and no default is given
Encode(v, dflt) ==
    CASE v.t = "none"  -> JNull
      [] v.t = "str"   -> JString(v.s)
      [] v.t = "int"   -> JNumber(v.n)
      [] v.t = "bool"  -> JBool(v.b)
      [] v.t = "list"  ->
            LET xs == [i \in 1..Len(v.xs) |-> Encode(v.xs[i], dflt)]
            IN  IF \E i \in 1..Len(xs) : xs[i].j = "TypeError"
                THEN JTypeError ELSE JArray(xs)
      [] v.t = "tuple" ->
            LET xs == [i \in 1..Len(v.tx) |-> Encode(v.tx[i], dflt)]
            IN  IF \E i \in 1..Len(xs) : xs[i].j = "TypeError"
                THEN JTypeError ELSE JArray(xs)
      [] v.t = "dict"  ->
            LET f == [k \in DOMAIN v.kv |-> Encode(v.kv[k], dflt)]
            IN  IF \E k \in DOMAIN f : f[k].j = "TypeError"
                THEN JTypeError ELSE JObject(f)
      [] v.t = "obj"   -> IF dflt THEN JString(DefaultStr(v).s) ELSE JTypeError

RECURSIVE Decode(_)
\* json.load of a well-formed document
Decode(d) ==
    CASE d.j = "null"   -> PyNone
      [] d.j = "string" -> PyStr(d.s)
      [] d.j = "number" -> PyInt(d.n)
      [] d.j = "bool"   -> PyBool(d.b)
      [] d.j = "array"  -> PyList([i \in 1..Len(d.xs) |-> Decode(d.xs[i])])
      [] d.j = "object" -> PyDict([k \in DOMAIN d.kv |-> Decode(d.kv[k])])

\* bool(v): Python truthiness, as used by "if cached:"
Truthy(v) ==
    CASE v.t = "none"  -> FALSE
      [] v.t = "str"   -> v.s # ""
      [] v.t = "int"   -> v.n # 0
      [] v.t = "bool"  -> v.b
      [] v.t = "list"  -> Len(v.xs) > 0
      [] v.t = "tuple" -> Len(v.tx) > 0
      [] v.t = "dict"  -> DOMAIN v.kv # {}
      [] v.t = "obj"   -> TRUE

\* d.get(k) on a dict
DictGet(d, k) == IF k \in DOMAIN d.kv THEN d.kv[k] ELSE PyNone

(***************************************************************************)
(* The cache directory tree.  files maps each existing path <<dir, name>>  *)
(* to the file's content: a JSON document, a truncated (not parseable)     *)
(* JSON text, or bytes that are not UTF-8.                                 *)
(***************************************************************************)
RootDir == "."

FileJson(doc) == [kind |-> "json", doc |-> doc]
FileTruncated == [kind |-> "truncated"]
FileBytes     == [kind |-> "bytes"]

Exists(f, p) == p \in DOMAIN f

Put(f, p, c) == [q \in (DOMAIN f) \cup {p} |-> IF q = p THEN c ELSE f[q]]

RemoveAll(f, ps) == [q \in (DOMAIN f) \ ps |-> f[q]]

\* the outcome of a call: what it returned, or the exception it raised
Returned(v) == [exc |-> "", val |-> v]
Raised(e)   == [exc |-> e, val |-> PyNone]

\* json.load(fh) on a file
JsonLoad(c) ==
    CASE c.kind = "json"      -> Returned(Decode(c.doc))
      [] c.kind = "truncated" -> Raised("JSONDecodeError")
      [] c.kind = "bytes"     -> Raised("UnicodeDecodeError")

\* the outcome of a write: the new tree and the exception raised, if any
Wrote(f, e) == [files |-> f, exc |-> e]

\* ---- pipeline_cache ------------------------------------------------------
_cache_path(key, subdir) == <<subdir, key>>

\* a plausible slip: returning the whole envelope
get_cached_envelope(f, key, subdir) ==
    IF ~Exists(f, _cache_path(key, subdir)) THEN Returned(PyNone)
    ELSE JsonLoad(f[_cache_path(key, subdir)])

\* a plausible slip: a lookup that never finds the entry
get_cached_miss(f, key, subdir) == Returned(PyNone)

get_cached(f, key, subdir) ==
    LET path == _cache_path(key, subdir) IN
    IF ~Exists(f, path) THEN Returned(PyNone)
    ELSE LET r == JsonLoad(f[path]) IN
         IF r.exc = "JSONDecodeError" THEN Returned(PyNone)
         ELSE IF r.exc # "" THEN r
         ELSE IF r.val.t = "dict" THEN Returned(DictGet(r.val, "value"))
         ELSE Raised("AttributeError")

\* the envelope {"key", "subdir", "ts", "value"}; ts is time.time()
Envelope(key, subdir, value) ==
    PyDict([k \in {"key", "subdir", "ts", "value"} |->
        CASE k = "key"    -> PyStr(ToString(key))
          [] k = "subdir" -> PyStr(subdir)
          [] k = "ts"     -> PyInt(0)
          [] k = "value"  -> value])

\* a plausible slip: keeping an entry that is already there
set_cached_keep(f, key, value, subdir, ioError) ==
    IF ioError THEN Wrote(f, "OSError")
    ELSE IF Exists(f, _cache_path(key, subdir)) THEN Wrote(f, "")
    ELSE Wrote(Put(f, _cache_path(key, subdir),
                   FileJson(Encode(Envelope(key, subdir, value), TRUE))), "")

\* ioError: path.open("w") fails
set_cached(f, key, value, subdir, ioError) ==
    LET path == _cache_path(key, subdir) IN
    IF ioError THEN Wrote(f, "OSError")
    ELSE Wrote(Put(f, path, FileJson(Encode(Envelope(key, subdir, value), TRUE))), "")

\* ---- CacheManager --------------------------------------------------------
CacheManager_path(inputs, namespace) == <<namespace, CacheManager_make_key(inputs)>>

CacheManager_get(f, inputs, namespace) ==
    LET cache_file == CacheManager_path(inputs, namespace) IN
    IF Exists(f, cache_file) THEN JsonLoad(f[cache_file])
    ELSE Returned(PyNone)

CacheManager_set(f, inputs, value, namespace, ioError) ==
    LET cache_file == CacheManager_path(inputs, namespace)
        doc == Encode(value, FALSE)
    IN  IF ioError THEN Wrote(f, "OSError")
        ELSE IF doc.j = "TypeError"
             THEN Wrote(Put(f, cache_file, FileTruncated), "TypeError")
             ELSE Wrote(Put(f, cache_file, FileJson(doc)), "")

\* namespace "" stands for None: the whole cache directory
\* a plausible slip: always removing the whole directory
CacheManager_clear_all(f, namespace) == RemoveAll(f, DOMAIN f)

CacheManager_clear(f, namespace) ==
    IF namespace # ""
    THEN RemoveAll(f, {p \in DOMAIN f : p[1] = namespace})
    ELSE RemoveAll(f, DOMAIN f)

\* ---- ContentCache --------------------------------------------------------
ContentCache_cache_file(key_data) == <<RootDir, ContentCache_key_hash(key_data)>>

ContentCache_get(f, on, key_data) ==
    LET cache_file == ContentCache_cache_file(key_data) IN
    IF ~on THEN Returned(PyNone)
    ELSE IF ~Exists(f, cache_file) THEN Returned(PyNone)
    ELSE LET r == JsonLoad(f[cache_file]) IN
         IF r.exc # "" THEN Returned(PyNone)
         ELSE IF r.val.t = "dict" THEN Returned(DictGet(r.val, "content"))
         ELSE Returned(PyNone)

ContentCache_set(f, on, key_data, content, ioError) ==
    LET cache_file == ContentCache_cache_file(key_data)
        entry == PyDict([k \in {"content", "cached_at"} |->
                     IF k = "content" THEN content ELSE PyInt(0)])
        doc == Encode(entry, FALSE)
    IN  IF ~on THEN Wrote(f, "")
        ELSE IF ioError THEN Wrote(f, "")
        ELSE IF doc.j = "TypeError" THEN Wrote(Put(f, cache_file, FileTruncated), "")
        ELSE Wrote(Put(f, cache_file, FileJson(doc)), "")

ContentCache_clear(f) == RemoveAll(f, {p \in DOMAIN f : p[1] = RootDir})


(***************************************************************************)
(* Specification of the key functions: two mappings with the same field    *)
(* names are drawn, and the three key functions are applied to both.       *)
(***************************************************************************)
FieldPairs == {<<n, v>> : n \in TestFieldNames, v \in FieldValues}

Names(m) == {m[i][1] : i \in 1..Len(m)}

KeyMappings ==
    {m \in UNION {[1..n -> FieldPairs] : n \in 1..MaxFields} :
        Cardinality(Names(m)) = Len(m)}

KeysOf(m1, m2, done) ==
    [done |-> done,
     pc1 |-> make_cache_key(m1),        pc2 |-> make_cache_key(m2),
     cm1 |-> CacheManager_make_key(m1), cm2 |-> CacheManager_make_key(m2),
     cc1 |-> ContentCache_key_hash(m1), cc2 |-> ContentCache_key_hash(m2)]

KeysIdle == kIn1 = <<>> /\ kIn2 = <<>> /\ kOut = KeysOf(<<>>, <<>>, FALSE)

ComputeKeys ==
    /\ ~kOut.done
    /\ kOut' = KeysOf(kIn1, kIn2, TRUE)
    /\ UNCHANGED <<kIn1, kIn2>>
    /\ UNCHANGED <<storeVars, flowVars, extVars>>

(***************************************************************************)
(* Cache operations as actions.  impl is "pc" (pipeline_cache), "cm"       *)
(* (CacheManager) or "cc" (ContentCache, which has no namespaces and       *)
(* writes into the cache directory itself).  amap is the map the cache     *)
(* stands for: what was set last under each (impl, namespace, key) and     *)
(* not cleared since.                                                      *)
(***************************************************************************)
Impls == {"pc", "cm", "cc"}

NsOf(impl, ns) == IF impl = "cc" THEN RootDir ELSE ns

GetBy(f, on, impl, m, ns) ==
    CASE impl = "pc" -> get_cached(f, make_cache_key(m), ns)
      [] impl = "cm" -> CacheManager_get(f, m, ns)
      [] impl = "cc" -> ContentCache_get(f, on, m)

SetBy(f, on, impl, m, v, ns, ioError) ==
    CASE impl = "pc" -> set_cached(f, make_cache_key(m), v, ns, ioError)
      [] impl = "cm" -> CacheManager_set(f, m, v, ns, ioError)
      [] impl = "cc" -> ContentCache_set(f, on, m, v, ioError)

PathBy(impl, m, ns) ==
    CASE impl = "pc" -> _cache_path(make_cache_key(m), ns)
      [] impl = "cm" -> CacheManager_path(m, ns)
      [] impl = "cc" -> ContentCache_cache_file(m)

OpIdle == [op |-> "none", impl |-> "", exc |-> "", val |-> PyNone]

Set(impl, m, v, ns, ioError) ==
    LET w == SetBy(files, enabled, impl, m, v, ns, ioError) IN
    /\ files' = w.files
    /\ lastOp' = [op |-> "set", impl |-> impl, exc |-> w.exc, val |-> PyNone]
    /\ amap' = Put(amap, <<impl, NsOf(impl, ns), m>>, v)
    /\ UNCHANGED <<enabled, hasKey>>
    /\ UNCHANGED <<keyVars, flowVars, extVars>>

Get(impl, m, ns) ==
    LET r == GetBy(files, enabled, impl, m, ns) IN
    /\ lastOp' = [op |-> "get", impl |-> impl, exc |-> r.exc, val |-> r.val]
    /\ UNCHANGED <<files, enabled, hasKey, amap>>
    /\ UNCHANGED <<keyVars, flowVars, extVars>>

\* CacheManager.clear(namespace); "" stands for None
ClearManager(ns) ==
    /\ files' = CacheManager_clear(files, ns)
    /\ lastOp' = [op |-> "clear", impl |-> "cm", exc |-> "", val |-> PyNone]
    /\ amap' = RemoveAll(amap, {e \in DOMAIN amap : ns = "" \/ e[2] = ns})
    /\ UNCHANGED <<enabled, hasKey>>
    /\ UNCHANGED <<keyVars, flowVars, extVars>>

\* ContentCache.clear()
ClearContent ==
    /\ files' = ContentCache_clear(files)
    /\ lastOp' = [op |-> "clear", impl |-> "cc", exc |-> "", val |-> PyNone]
    /\ amap' = RemoveAll(amap, {e \in DOMAIN amap : e[2] = RootDir})
    /\ UNCHANGED <<enabled, hasKey>>
    /\ UNCHANGED <<keyVars, flowVars, extVars>>

\* something outside the program damages an entry file
Corrupt(impl, m, ns, c) ==
    /\ Exists(files, PathBy(impl, m, ns))
    /\ files' = Put(files, PathBy(impl, m, ns), c)
    /\ lastOp' = [op |-> "corrupt", impl |-> impl, exc |-> "", val |-> PyNone]
    /\ UNCHANGED <<enabled, hasKey, amap>>
    /\ UNCHANGED <<keyVars, flowVars, extVars>>


(***************************************************************************)
(* Initial states and specifications of the key functions and the store.   *)
(***************************************************************************)
\* nothing in progress outside the cache and the request flows
WrIdle  == [busy |-> FALSE, impl |-> "", m |-> <<>>, ns |-> "", v |-> PyNone,
            prev |-> Returned(PyNone)]
LlmIdle == [st |-> "idle"]
EpIdle  == [st |-> "idle"]
SxIdle  == [st |-> "idle"]

PfIdle  == [st |-> "idle"]
RlIdle  == [st |-> "idle"]

ExtIdle ==
    /\ wr = WrIdle /\ llm = LlmIdle /\ ep = EpIdle /\ sx = SxIdle
    /\ pf = PfIdle /\ rl = RlIdle

Procs == {1, 2}

EmptyFn == [x \in {} |-> x]

NoRequest == [entry |-> "", theme |-> "", output |-> ""]

FlowIdle ==
    /\ pc = [p \in Procs |-> "idle"]
    /\ req = [p \in Procs |-> NoRequest]
    /\ res = [p \in Procs |-> PyNone]
    /\ nCalls = [p \in Procs |-> 0]
    /\ out = [p \in Procs |-> ""]
    /\ late = [p \in Procs |-> FALSE]
    /\ nReq = 0
    /\ completed = {}
    /\ payers = EmptyFn
    /\ fresh = EmptyFn
    /\ latePaid = {}
    /\ lastWriter = EmptyFn

StoreIdle ==
    /\ files = EmptyFn
    /\ lastOp = OpIdle
    /\ amap = EmptyFn

InitKeys ==
    /\ kIn1 \in KeyMappings
    /\ kIn2 \in {m \in KeyMappings : Names(m) = Names(kIn1)}
    /\ kOut = KeysOf(<<>>, <<>>, FALSE)
    /\ StoreIdle /\ enabled = TRUE /\ hasKey = TRUE
    /\ FlowIdle
    /\ ExtIdle

NextKeys == ComputeKeys

SpecKeys == InitKeys /\ [][NextKeys]_vars

\* the keys, namespaces and payloads the store is exercised with
K1 == <<<<"theme", PyStr("test")>>, <<"preset", PyStr("devotional")>>>>
K2 == <<<<"theme", PyStr("other")>>, <<"preset", PyStr("devotional")>>>>

\* the entries <<implementation, key fields, namespace>> the store is
\* exercised on: two keys in one namespace, one key in two namespaces
StoreTargets ==
    {<<"pc", K1, "scripts">>, <<"pc", K2, "scripts">>,
     <<"cm", K1, "scripts">>, <<"cm", K2, "scripts">>, <<"cm", K1, "shorts">>,
     <<"cc", K1, RootDir>>}

Namespaces == {"scripts", "shorts"}

\* the payload of test_pipeline_cache: a mapping holding a sequence
TestPayload ==
    PyDict([k \in {"script", "titles"} |->
        IF k = "script" THEN PyStr("hello world")
        ELSE PyList(<<PyStr("Title 1")>>)])

\* a sequence holding a mapping, as the shorts lists are
ShortsPayload ==
    PyList(<<PyDict([k \in {"title"} |-> PyStr("Short 1")]), PyInt(1)>>)

Payloads == {TestPayload, ShortsPayload}

\* a payload json cannot encode without default=str
BadPayload == PyDict([k \in {"script"} |-> PyObj("Path(x)")])

InitStore ==
    /\ KeysIdle
    /\ StoreIdle
    /\ enabled \in BOOLEAN
    /\ hasKey = TRUE
    /\ FlowIdle
    /\ ExtIdle

\* the cache used as its docstrings ask: JSON-serialisable payloads
NextStore ==
    \/ \E e \in StoreTargets, v \in Payloads : Set(e[1], e[2], v, e[3], FALSE)
    \/ \E e \in StoreTargets : Get(e[1], e[2], e[3])
    \/ \E ns \in Namespaces \cup {""} : ClearManager(ns)
    \/ ClearContent

SpecStore == InitStore /\ [][NextStore]_vars

\* the cache under faults: damaged entry files, payloads json cannot encode,
\* and writes the file system refuses
CorruptContents == {FileTruncated, FileBytes, FileJson(JArray(<<>>))}

NextFaults ==
    \/ \E impl \in Impls, v \in {TestPayload, BadPayload}, ioError \in BOOLEAN :
            Set(impl, K1, v, "scripts", ioError)
    \/ \E impl \in Impls : Get(impl, K1, "scripts")
    \/ \E impl \in Impls, c \in CorruptContents : Corrupt(impl, K1, "scripts", c)
    \/ ClearManager("scripts")
    \/ ClearContent

SpecFaults == InitStore /\ [][NextFaults]_vars

(***************************************************************************)
(* The request flows of api_server.generate and quick_start.generate_long: *)
(* look the configuration up in the cache, on a miss make the three LLM    *)
(* calls (script, titles, thumbnail texts), then store the result.  Each   *)
(* worker p handles one request at a time, step by step.                   *)
(***************************************************************************)
MaxRequests == 3

\* GenerateRequest.shorts_count default, Config.VIDEO_DURATION_MINUTES default
DefaultShortsCount == 4
VideoDurationMinutes == 30
\* script, titles, thumbnail texts
CallsPerGeneration == 3

ApiKeyFields(r) ==
    << <<"preset", PyStr("devotional")>>, <<"theme", PyStr(r.theme)>>,
       <<"output", PyStr(r.output)>>, <<"tier", PyStr("free")>>,
       <<"shorts_count", PyInt(DefaultShortsCount)>>,
       <<"duration", PyInt(VideoDurationMinutes)>> >>

QsKeyFields(r) ==
    << <<"preset", PyStr("devotional")>>, <<"theme", PyStr(r.theme)>>,
       <<"output", PyStr("long")>>, <<"tier", PyStr("free")>>,
       <<"duration", PyInt(VideoDurationMinutes)>> >>

FlowKey(r) ==
    make_cache_key(IF r.entry = "api" THEN ApiKeyFields(r) ELSE QsKeyFields(r))

FlowNs(r) == IF r.entry = "api" THEN "api_responses" ELSE "scripts"

FlowPath(r) == _cache_path(FlowKey(r), FlowNs(r))

DictPut(d, k, v) == PyDict(Put(d.kv, k, v))

\* _parse_numbered_list on the lines of a reply (bullets already stripped):
\* the non-empty lines, at most three
_parse_numbered_list(lines) ==
    LET items == SelectSeq(lines, LAMBDA l : l # "")
    IN  PyList([i \in 1..(IF Len(items) < 3 THEN Len(items) ELSE 3) |-> PyStr(items[i])])

\* the replies to the title and thumbnail prompts
ListReply == <<"Title one", "", "Title two">>

\* the result dict before the first LLM call
ResultStart(r) ==
    IF r.entry = "api"
    THEN PyDict([k \in {"preset", "theme", "tier", "dry_run", "cached"} |->
            CASE k = "preset"  -> PyStr("devotional")
              [] k = "theme"   -> PyStr(r.theme)
              [] k = "tier"    -> PyStr("free")
              [] k = "dry_run" -> PyBool(FALSE)
              [] k = "cached"  -> PyBool(FALSE)])
    ELSE PyDict([k \in {"preset", "theme", "tier"} |->
            CASE k = "preset"  -> PyStr("devotional")
              [] k = "theme"   -> PyStr(r.theme)
              [] k = "tier"    -> PyStr("free")])

\* the result after the n-th successful LLM call returned text (the fields
\* computed without an LLM call, platform_cues and shorts, are not carried)
ResultAfterCall(d, n, text) ==
    CASE n = 1 -> DictPut(d, "long_script", PyStr(text))
      [] n = 2 -> DictPut(d, "titles", _parse_numbered_list(ListReply))
      [] n = 3 -> DictPut(d, "thumbnail_texts", _parse_numbered_list(ListReply))

Count(f, c) == IF c \in DOMAIN f THEN f[c] ELSE 0

Complete(p, outcome, result) ==
    /\ pc' = [pc EXCEPT ![p] = "idle"]
    /\ out' = [out EXCEPT ![p] = outcome]
    /\ res' = [res EXCEPT ![p] = result]
    /\ completed' = IF outcome \in {"cached", "fresh"}
                    THEN completed \cup {req[p]} ELSE completed

\* a request arrives at worker p
Begin(p, r) ==
    /\ pc[p] = "idle"
    /\ nReq < MaxRequests
    /\ nReq' = nReq + 1
    /\ pc' = [pc EXCEPT ![p] = r.entry]
    /\ req' = [req EXCEPT ![p] = r]
    /\ res' = [res EXCEPT ![p] = PyNone]
    /\ nCalls' = [nCalls EXCEPT ![p] = 0]
    /\ out' = [out EXCEPT ![p] = ""]
    /\ late' = [late EXCEPT ![p] = r \in completed]
    /\ UNCHANGED <<completed, payers, fresh, latePaid, lastWriter>>
    /\ UNCHANGED <<keyVars, storeVars, extVars>>

\* api_server.generate up to the first LLM call; quick_start.generate_long
\* up to its first LLM call
GenLookup(p) ==
    LET r == req[p]
        g == get_cached(files, FlowKey(r), FlowNs(r))
    IN
    /\ pc[p] \in {"api", "qs"}
    /\ lastOp' = [op |-> "get", impl |-> "pc", exc |-> g.exc, val |-> g.val]
    /\ IF g.exc # ""
       THEN Complete(p, "lookup_error", PyNone)
       ELSE IF Truthy(g.val)
       THEN Complete(p, "cached",
                IF r.entry = "api" /\ g.val.t = "dict"
                THEN DictPut(g.val, "cached", PyBool(TRUE)) ELSE g.val)
       ELSE IF r.entry = "api" /\ ~hasKey
       THEN Complete(p, "error503", PyNone)
       ELSE IF r.entry = "api" /\ r.output = "shorts"
       THEN Complete(p, "error400", PyNone)
       ELSE /\ pc' = [pc EXCEPT ![p] = "llm"]
            /\ res' = [res EXCEPT ![p] = ResultStart(r)]
            /\ UNCHANGED <<out, completed>>
    /\ UNCHANGED <<req, nCalls, late, nReq, payers, fresh, latePaid, lastWriter>>
    /\ UNCHANGED <<files, enabled, hasKey, amap>>
    /\ UNCHANGED <<keyVars, extVars>>

\* a plausible slip: a failed call is swallowed and what there is gets stored
GenLlmStoresPartial(p, ok, text) ==
    /\ pc[p] = "llm"
    /\ nCalls' = [nCalls EXCEPT ![p] = nCalls[p] + 1]
    /\ payers' = IF nCalls[p] = 0
                 THEN Put(payers, req[p], Count(payers, req[p]) + 1) ELSE payers
    /\ latePaid' = IF late[p] THEN latePaid \cup {req[p]} ELSE latePaid
    /\ res' = [res EXCEPT ![p] = IF ok THEN ResultAfterCall(res[p], nCalls[p] + 1, text)
                                 ELSE res[p]]
    /\ pc' = [pc EXCEPT ![p] =
                IF ~ok \/ nCalls[p] + 1 = CallsPerGeneration THEN "store" ELSE "llm"]
    /\ UNCHANGED <<out, completed>>
    /\ UNCHANGED <<req, late, nReq, fresh, lastWriter>>
    /\ UNCHANGED <<keyVars, storeVars, extVars>>

\* one _openai_generate call: it returns text, or raises
GenLlm(p, ok, text) ==
    /\ pc[p] = "llm"
    /\ nCalls' = [nCalls EXCEPT ![p] = nCalls[p] + 1]
    /\ payers' = IF nCalls[p] = 0
                 THEN Put(payers, req[p], Count(payers, req[p]) + 1) ELSE payers
    /\ latePaid' = IF late[p] THEN latePaid \cup {req[p]} ELSE latePaid
    /\ IF ~ok
       THEN Complete(p, "llm_error", PyNone)
       ELSE /\ res' = [res EXCEPT ![p] = ResultAfterCall(res[p], nCalls[p] + 1, text)]
            /\ pc' = [pc EXCEPT ![p] =
                        IF nCalls[p] + 1 = CallsPerGeneration THEN "store" ELSE "llm"]
            /\ UNCHANGED <<out, completed>>
    /\ UNCHANGED <<req, late, nReq, fresh, lastWriter>>
    /\ UNCHANGED <<keyVars, storeVars, extVars>>

\* set_cached(cache_key, result, ...) and the return of the result
GenStore(p, ioError) ==
    LET r == req[p]
        w == set_cached(files, FlowKey(r), res[p], FlowNs(r), ioError)
    IN
    /\ pc[p] = "store"
    /\ files' = w.files
    /\ lastOp' = [op |-> "set", impl |-> "pc", exc |-> w.exc, val |-> PyNone]
    /\ IF w.exc # ""
       THEN /\ Complete(p, "write_error", PyNone)
            /\ UNCHANGED <<fresh, lastWriter>>
       ELSE /\ Complete(p, "fresh", res[p])
            /\ fresh' = Put(fresh, r, Count(fresh, r) + 1)
            /\ lastWriter' = Put(lastWriter, FlowPath(r), p)
    /\ UNCHANGED <<req, nCalls, late, nReq, payers, latePaid>>
    /\ UNCHANGED <<enabled, hasKey, amap>>
    /\ UNCHANGED <<keyVars, extVars>>

Requests(entries, themes, outputs) ==
    {[entry |-> e, theme |-> t, output |-> o] :
        e \in entries, t \in themes, o \in outputs}

InitFlow ==
    /\ KeysIdle
    /\ StoreIdle
    /\ enabled \in BOOLEAN
    /\ hasKey \in BOOLEAN
    /\ FlowIdle
    /\ ExtIdle

\* requests handled one after the other by one worker
NextFlow ==
    \/ \E r \in Requests({"api", "qs"}, {"a", "b"}, {"both", "shorts"}) : Begin(1, r)
    \/ GenLookup(1)
    \/ \E ok \in BOOLEAN : GenLlm(1, ok, "S1")
    \/ \E ioError \in BOOLEAN : GenStore(1, ioError)

SpecFlow == InitFlow /\ [][NextFlow]_vars

\* two workers handling requests at the same time
NextConc ==
    \E p \in Procs :
        \/ \E r \in Requests({"api", "qs"}, {"a"}, {"both"}) : Begin(p, r)
        \/ GenLookup(p)
        \/ \E ok \in BOOLEAN, text \in {"S1", "S2"} : GenLlm(p, ok, text)
        \/ \E ioError \in BOOLEAN : GenStore(p, ioError)

SpecConc == InitFlow /\ [][NextConc]_vars

(***************************************************************************)
(* ContentScriptGenerator.generate for the "devotion" niche on the free    *)
(* tier.  An LLM reply is a sequence of lines; a line is the record of its *)
(* stripped text "<head><num>[:][ <rest>]".  The constant preset fields of *)
(* the result (packaging, cost_estimate) are not carried.                  *)
(***************************************************************************)
Line(head, num, colon, rest) ==
    [head |-> head, num |-> num, colon |-> colon, rest |-> rest]

BlankLine == Line("", "", FALSE, "")

\* str.upper() on the words a reply starts its lines with
Upper(h) ==
    CASE h = "Short"   -> "SHORT"
      [] h = "Hook"    -> "HOOK"
      [] h = "Section" -> "SECTION"
      [] OTHER         -> h

\* line.strip()
Stripped(l) ==
    l.head \o l.num \o (IF l.colon THEN ":" ELSE "")
           \o (IF l.rest # "" /\ (l.head # "" \/ l.colon) THEN " " ELSE "") \o l.rest

RECURSIVE Join(_, _)
\* sep.join(parts)
Join(sep, parts) ==
    IF Len(parts) = 0 THEN ""
    ELSE IF Len(parts) = 1 THEN parts[1]
    ELSE parts[1] \o sep \o Join(sep, Tail(parts))

\* the reply as one string, and raw.split("\n") of it
RawText(lines) == Join("\n", [i \in 1..Len(lines) |-> Stripped(lines[i])])

\* upper.startswith(word) and ":" in stripped
StartsWithAndColon(l, word) == Upper(l.head) = word /\ l.colon

\* upper.startswith(word + ":")
StartsWithColon(l, word) == Upper(l.head) = word /\ l.num = "" /\ l.colon

\* NICHE_PRESETS["devotion"]: shorts count, long-form duration; the free tier's model
ShortsCount == 5
DurationMinutes == 30
ScriptModel == "gpt-3.5-turbo"

SectionDict(title, lines) ==
    PyDict([k \in {"title", "content"} |->
        IF k = "title" THEN PyStr(title) ELSE PyStr(Join(" ", lines))])

RECURSIVE StructureLoop(_, _, _, _)
\* the for loop of _structure_long_form: title "" stands for None
StructureLoop(lines, sections, title, cur) ==
    IF Len(lines) = 0
    THEN IF title # "" /\ Len(cur) > 0
         THEN Append(sections, SectionDict(title, cur)) ELSE sections
    ELSE LET l == Head(lines) IN
         IF Stripped(l) = ""
         THEN StructureLoop(Tail(lines), sections, title, cur)
         ELSE IF StartsWithAndColon(l, "SECTION")
         THEN StructureLoop(Tail(lines),
                  IF title # "" THEN Append(sections, SectionDict(title, cur))
                  ELSE sections,
                  l.rest, <<>>)
         ELSE StructureLoop(Tail(lines), sections, title, Append(cur, Stripped(l)))

_structure_long_form(lines, theme) ==
    PyDict([k \in {"theme", "niche", "duration_minutes", "sections",
                   "full_script", "cached"} |->
        CASE k = "theme"            -> PyStr(theme)
          [] k = "niche"            -> PyStr("devotion")
          [] k = "duration_minutes" -> PyInt(DurationMinutes)
          [] k = "sections"         -> PyList(StructureLoop(lines, <<>>, "", <<>>))
          [] k = "full_script"      -> PyStr(RawText(lines))
          [] k = "cached"           -> PyBool(FALSE)])

NewShort(title) ==
    [k \in {"title", "hook", "body", "cta", "cached"} |->
        CASE k = "title"  -> PyStr(title)
          [] k = "cached" -> PyBool(FALSE)
          [] OTHER        -> PyStr("")]

RECURSIVE ParseShortsLoop(_, _, _)
\* the for loop of _parse_shorts: cur is the dict "current", {} at first
ParseShortsLoop(lines, shorts, cur) ==
    IF Len(lines) = 0
    THEN IF DOMAIN cur # {} THEN Append(shorts, PyDict(cur)) ELSE shorts
    ELSE LET l == Head(lines) IN
         IF Stripped(l) = ""
         THEN ParseShortsLoop(Tail(lines), shorts, cur)
         ELSE IF StartsWithAndColon(l, "SHORT")
         THEN ParseShortsLoop(Tail(lines),
                  IF DOMAIN cur # {} THEN Append(shorts, PyDict(cur)) ELSE shorts,
                  NewShort(l.rest))
         ELSE IF StartsWithColon(l, "HOOK")
         THEN ParseShortsLoop(Tail(lines), shorts, Put(cur, "hook", PyStr(l.rest)))
         ELSE IF StartsWithColon(l, "BODY")
         THEN ParseShortsLoop(Tail(lines), shorts, Put(cur, "body", PyStr(l.rest)))
         ELSE IF StartsWithColon(l, "CTA")
         THEN ParseShortsLoop(Tail(lines), shorts, Put(cur, "cta", PyStr(l.rest)))
         ELSE ParseShortsLoop(Tail(lines), shorts, cur)

_parse_shorts(lines) == PyList(ParseShortsLoop(lines, <<>>, EmptyFn))

LongFormKey(theme) ==
    << <<"type", PyStr("long_form")>>, <<"niche", PyStr("devotion")>>,
       <<"theme", PyStr(theme)>>, <<"model", PyStr(ScriptModel)>> >>

ShortsKey(theme) ==
    << <<"type", PyStr("shorts")>>, <<"niche", PyStr("devotion")>>,
       <<"theme", PyStr(theme)>>, <<"count", PyInt(ShortsCount)>>,
       <<"model", PyStr(ScriptModel)>> >>

\* for s in cached: s["cached"] = True
MarkCached(v) ==
    PyList([i \in 1..Len(v.xs) |-> DictPut(v.xs[i], "cached", PyBool(TRUE))])

\* where generate goes after the long-form part
AfterLong(r) == IF r.output = "both" THEN "csg_shorts" ELSE "csg_return"

\* ContentScriptGenerator(...) and generate up to the first part
CsgStart(p) ==
    /\ pc[p] = "csg"
    /\ IF ~hasKey
       THEN Complete(p, "config_error", PyNone)
       ELSE /\ pc' = [pc EXCEPT ![p] =
                    IF req[p].output \in {"long", "both"} THEN "csg_long" ELSE "csg_shorts"]
            /\ res' = [res EXCEPT ![p] =
                    PyDict([k \in {"theme", "niche"} |->
                        IF k = "theme" THEN PyStr(req[p].theme) ELSE PyStr("devotion")])]
            /\ UNCHANGED <<out, completed>>
    /\ UNCHANGED <<req, nCalls, late, nReq, payers, fresh, latePaid, lastWriter>>
    /\ UNCHANGED <<keyVars, storeVars, extVars>>

\* one part of generate (_generate_long_form or _generate_shorts): lookup
\* under key, on a miss the LLM call, parse, and the cache write
CsgPart(p, at, next, field, key, ok, value, ioError) ==
    LET g == CacheManager_get(files, key, "scripts")
        hit == enabled /\ g.exc = "" /\ Truthy(g.val)
        w == CacheManager_set(files, key, value, "scripts", ioError)
    IN
    /\ pc[p] = at
    /\ IF enabled /\ g.exc # ""
       THEN /\ Complete(p, "lookup_error", PyNone)
            /\ lastOp' = [op |-> "get", impl |-> "cm", exc |-> g.exc, val |-> g.val]
            /\ UNCHANGED <<files, nCalls, payers, latePaid>>
       ELSE IF hit
       THEN /\ pc' = [pc EXCEPT ![p] = next]
            /\ res' = [res EXCEPT ![p] = DictPut(res[p], field,
                        IF g.val.t = "dict" THEN DictPut(g.val, "cached", PyBool(TRUE))
                        ELSE MarkCached(g.val))]
            /\ lastOp' = [op |-> "get", impl |-> "cm", exc |-> g.exc, val |-> g.val]
            /\ UNCHANGED <<files, nCalls, payers, latePaid, out, completed>>
       ELSE /\ nCalls' = [nCalls EXCEPT ![p] = nCalls[p] + 1]
            /\ payers' = IF nCalls[p] = 0
                         THEN Put(payers, req[p], Count(payers, req[p]) + 1) ELSE payers
            /\ latePaid' = IF late[p] THEN latePaid \cup {req[p]} ELSE latePaid
            /\ IF ~ok
               THEN /\ Complete(p, "llm_error", PyNone)
                    /\ UNCHANGED <<files, lastOp>>
               ELSE IF ~enabled
               THEN /\ pc' = [pc EXCEPT ![p] = next]
                    /\ res' = [res EXCEPT ![p] = DictPut(res[p], field, value)]
                    /\ UNCHANGED <<files, lastOp, out, completed>>
               ELSE /\ files' = w.files
                    /\ lastOp' = [op |-> "set", impl |-> "cm", exc |-> w.exc, val |-> PyNone]
                    /\ IF w.exc # ""
                       THEN Complete(p, "write_error", PyNone)
                       ELSE /\ pc' = [pc EXCEPT ![p] = next]
                            /\ res' = [res EXCEPT ![p] = DictPut(res[p], field, value)]
                            /\ UNCHANGED <<out, completed>>
    /\ UNCHANGED <<req, late, nReq, fresh, lastWriter>>
    /\ UNCHANGED <<enabled, hasKey, amap>>
    /\ UNCHANGED <<keyVars, extVars>>

\* result["long_script"] = self._generate_long_form(resolved_theme)
CsgLongForm(p, ok, lines, ioError) ==
    CsgPart(p, "csg_long", AfterLong(req[p]), "long_script",
            LongFormKey(req[p].theme), ok,
            _structure_long_form(lines, req[p].theme), ioError)

\* result["shorts"] = self._generate_shorts(resolved_theme, long_text)
CsgShorts(p, ok, lines, ioError) ==
    CsgPart(p, "csg_shorts", "csg_return", "shorts",
            ShortsKey(req[p].theme), ok, _parse_shorts(lines), ioError)

\* return result
CsgReturn(p) ==
    /\ pc[p] = "csg_return"
    /\ Complete(p, IF nCalls[p] = 0 THEN "cached" ELSE "fresh", res[p])
    /\ fresh' = IF nCalls[p] = 0 THEN fresh
                ELSE Put(fresh, req[p], Count(fresh, req[p]) + 1)
    /\ UNCHANGED <<req, nCalls, late, nReq, payers, latePaid, lastWriter>>
    /\ UNCHANGED <<keyVars, storeVars, extVars>>

\* LLM replies to the long-form prompt
LongReplies ==
    { << Line("HOOK", "", TRUE, ""), Line("Welcome", "", FALSE, ""), BlankLine,
         Line("Section", " 1", TRUE, "Peace"), Line("Be", "", FALSE, "still"),
         Line("and", "", FALSE, "know") >>,
      << Line("Just", "", FALSE, "prose") >> }

\* LLM replies to the shorts prompt
ShortsReplies ==
    { << Line("SHORT", " 1", TRUE, "Calm"), Line("HOOK", "", TRUE, "Stop"),
         Line("BODY", "", TRUE, "Breathe"), Line("CTA", "", TRUE, "Follow") >>,
      << Line("Hook", "", TRUE, "Wait"), BlankLine,
         Line("Short", " 2", TRUE, "Rest"), Line("SHORT", "", FALSE, "three") >>,
      << Line("Sorry,", "", FALSE, "I cannot help with that") >> }

NextGen ==
    \/ \E r \in Requests({"csg"}, {"a"}, {"long", "shorts", "both"}) : Begin(1, r)
    \/ CsgStart(1)
    \/ \E ok \in BOOLEAN, lines \in LongReplies, ioError \in BOOLEAN :
            CsgLongForm(1, ok, lines, ioError)
    \/ \E ok \in BOOLEAN, lines \in ShortsReplies, ioError \in BOOLEAN :
            CsgShorts(1, ok, lines, ioError)
    \/ CsgReturn(1)

SpecGen == InitFlow /\ [][NextGen]_vars

(***************************************************************************)
(* A cache write, step by step.  All three set functions write with        *)
(*     with open(path, "w") as fh: json.dump(..., fh)                      *)
(* open(path, "w") empties the file at once; the document reaches the file *)
(* when json.dump's output is flushed, at the latest when the with block   *)
(* closes the file.  Another request may read the entry in between.        *)
(***************************************************************************)
\* open(path, "w"): the entry file exists and is empty (or holds a prefix)
SetOpen(impl, m, v, ns) ==
    /\ ~wr.busy
    /\ IF impl = "cc" /\ ~enabled
       THEN /\ lastOp' = [op |-> "set", impl |-> impl, exc |-> "", val |-> PyNone]
            /\ UNCHANGED <<files, wr>>
       ELSE /\ files' = Put(files, PathBy(impl, m, ns), FileTruncated)
            /\ wr' = [busy |-> TRUE, impl |-> impl, m |-> m, ns |-> ns, v |-> v,
                      prev |-> GetBy(files, enabled, impl, m, ns)]
            /\ UNCHANGED lastOp
    /\ UNCHANGED <<enabled, hasKey, amap>>
    /\ UNCHANGED <<keyVars, flowVars, llm, ep, sx, pf, rl>>

\* json.dump(...) and the end of the with block: the document is in the file
SetClose ==
    /\ wr.busy
    /\ files' = SetBy(files, enabled, wr.impl, wr.m, wr.v, wr.ns, FALSE).files
    /\ lastOp' = [op |-> "set", impl |-> wr.impl, exc |-> "", val |-> PyNone]
    /\ amap' = Put(amap, <<wr.impl, NsOf(wr.impl, wr.ns), wr.m>>, wr.v)
    /\ wr' = WrIdle
    /\ UNCHANGED <<enabled, hasKey>>
    /\ UNCHANGED <<keyVars, flowVars, llm, ep, sx, pf, rl>>

\* one entry per implementation
WriteTargets == {t \in StoreTargets : t[2] = K1 /\ t[3] \in {"scripts", RootDir}}

NextWrite ==
    \/ \E t \in WriteTargets, v \in Payloads : SetOpen(t[1], t[2], v, t[3])
    \/ SetClose
    \/ \E t \in WriteTargets : Get(t[1], t[2], t[3])

SpecWrite == InitStore /\ [][NextWrite]_vars

(***************************************************************************)
(* llm_client.call_llm: the provider fallback chain, one loop iteration    *)
(* per step; and ContentScriptGenerator._call_openai: the retry loop, one  *)
(* attempt per step.  llm.called logs every provider call made.            *)
(***************************************************************************)
MaxProviders == 3

KnownProviders == {"openai", "gemini"}

\* names a provider list may hold: the two providers and a name call_llm
\* does not know
ProviderNames == KnownProviders \cup {"claude"}

\* what one provider call does: it returns text, or raises
CallOutcomes == {"ok", "RateLimitError", "APIError"}

\* os.environ.get("OPENAI_API_KEY") / os.environ.get("GOOGLE_API_KEY")
\* a plausible slip: calling without looking at the credential
HasCredentialAlways(creds, provider) == TRUE

HasCredential(creds, provider) == provider \in creds

\* f"{provider}: {error_type}: {exc}"
ErrorLine(provider, error_type) == provider \o ": " \o error_type \o ": failed"

\* the RuntimeError raised after the loop
\* a plausible slip: reporting the last error only
FailureMessageLast(errors) ==
    IF Len(errors) > 0
    THEN "All LLM providers failed:\n  - " \o errors[Len(errors)]
    ELSE "No LLM provider is configured. Set OPENAI_API_KEY or GOOGLE_API_KEY in your .env file."

FailureMessage(errors) ==
    IF Len(errors) > 0
    THEN "All LLM providers failed:\n" \o
         Join("\n", [k \in 1..Len(errors) |-> "  - " \o errors[k]])
    ELSE "No LLM provider is configured. Set OPENAI_API_KEY or GOOGLE_API_KEY in your .env file."

LlmRun(fn, providers, creds, retries) ==
    [st |-> "run", fn |-> fn, providers |-> providers, creds |-> creds,
     retries |-> retries, i |-> 1, attempt |-> 0,
     called |-> <<>>, errors |-> <<>>, val |-> "", exc |-> ""]

CallRecord(k, provider, outcome) == [k |-> k, p |-> provider, outcome |-> outcome]

\* one iteration of "for provider in providers", or the code after the loop
CallLlmStep(outcome) ==
    /\ llm.st = "run" /\ llm.fn = "call_llm"
    /\ IF llm.i > Len(llm.providers)
       THEN llm' = [llm EXCEPT !.st = "raised", !.exc = FailureMessage(llm.errors)]
       ELSE LET provider == llm.providers[llm.i] IN
            IF provider \notin KnownProviders \/ ~HasCredential(llm.creds, provider)
            THEN llm' = [llm EXCEPT !.i = llm.i + 1]
            ELSE IF outcome = "ok"
            THEN llm' = [llm EXCEPT !.st = "returned", !.val = "text",
                            !.called = Append(llm.called, CallRecord(llm.i, provider, outcome))]
            ELSE llm' = [llm EXCEPT !.i = llm.i + 1,
                            !.called = Append(llm.called, CallRecord(llm.i, provider, outcome)),
                            !.errors = Append(llm.errors, ErrorLine(provider, outcome))]
    /\ UNCHANGED <<keyVars, storeVars, flowVars, wr, ep, sx, pf, rl>>

Max(a, b) == IF a > b THEN a ELSE b

\* one iteration of "for attempt in range(max(1, max_retries))" in
\* ContentScriptGenerator._call_openai, with the return after the loop
CallOpenaiStep(outcome) ==
    /\ llm.st = "run" /\ llm.fn = "_call_openai"
    /\ llm.attempt < Max(1, llm.retries)
    /\ LET called == Append(llm.called, CallRecord(1, "openai", outcome)) IN
       IF outcome = "ok"
       THEN llm' = [llm EXCEPT !.st = "returned", !.val = "text", !.called = called]
       ELSE IF outcome # "RateLimitError" \/ llm.attempt = llm.retries - 1
       THEN llm' = [llm EXCEPT !.st = "raised", !.exc = outcome, !.called = called]
       ELSE IF llm.attempt + 1 = Max(1, llm.retries)
       THEN llm' = [llm EXCEPT !.st = "returned", !.val = "", !.called = called,
                        !.attempt = llm.attempt + 1]
       ELSE llm' = [llm EXCEPT !.attempt = llm.attempt + 1, !.called = called]
    /\ UNCHANGED <<keyVars, storeVars, flowVars, wr, ep, sx, pf, rl>>

ProviderLists == UNION {[1..n -> ProviderNames] : n \in 0..MaxProviders}

\* COST_TIERS[...]["max_retries"]
TierRetries == {2, 3}

\* a tier configuration as _call_openai may find it: max_retries absent
\* (PyNone) or any integer, those of COST_TIERS among them
RetryConfigs == {PyNone} \cup {PyInt(n) : n \in (-1)..3}

\* self.tier_cfg.get("max_retries", 2)
MaxRetriesOf(cfg) == IF cfg = PyNone THEN 2 ELSE cfg.n

InitLlm ==
    /\ KeysIdle
    /\ StoreIdle /\ enabled = TRUE /\ hasKey = TRUE
    /\ FlowIdle
    /\ wr = WrIdle /\ ep = EpIdle /\ sx = SxIdle
    /\ pf = PfIdle /\ rl = RlIdle
    /\ \/ \E providers \in ProviderLists, creds \in SUBSET KnownProviders,
            retries \in TierRetries :
                llm = LlmRun("call_llm", providers, creds, retries)
       \/ \E cfg \in RetryConfigs :
                llm = LlmRun("_call_openai", <<"openai">>, {"openai"}, MaxRetriesOf(cfg))

NextLlm ==
    \E outcome \in CallOutcomes :
        \/ CallLlmStep(outcome)
        \/ CallOpenaiStep(outcome)

SpecLlm == InitLlm /\ [][NextLlm]_vars

(***************************************************************************)
(* The entry points, each as one run from the request to the response:     *)
(* api_server.generate, api.generate_script, ContentScriptGenerator,       *)
(* cli.run_pipeline and quick_start.main.  A run records its outcome, its  *)
(* status (HTTP status or exit code), the number of LLM calls it made and  *)
(* the number of cache reads and writes.                                   *)
(***************************************************************************)
Effect(outcome, code, nLlm, reads, writes, est, f) ==
    [outcome |-> outcome, code |-> code, llm |-> nLlm, reads |-> reads,
     writes |-> writes, est |-> est, files |-> f]

EpDone(entry, r, e) ==
    [st |-> "done", entry |-> entry, r |-> r, outcome |-> e.outcome,
     code |-> e.code, llm |-> e.llm, reads |-> e.reads, writes |-> e.writes,
     est |-> e.est]

\* content_presets.PRESETS
ContentPresetNames == {"finance_ai_saas", "devotional"}

OutputTypes == {"long", "shorts", "both"}

\* the tiers of _words_per_minute / WORDS_PER_MINUTE
ServerTiers == {"free", "low_cost", "hq"}

\* {"free": 130, "low_cost": 140, "hq": 150}.get(tier, 130)
_words_per_minute(tier) ==
    CASE tier = "low_cost" -> 140
      [] tier = "hq"       -> 150
      [] OTHER             -> 130

\* GenerateRequest.shorts_count: Field(4, ge=1, le=8)
MinShortsCount == 1
MaxShortsCount == 8

\* shorts_dry_run_estimate(script_data, count): the local shorts derivation
\* needs no API call; the count is clamped to 1..8 and to the number of
\* content sections of the script
shorts_dry_run_estimate(nSections, count) ==
    LET clamped == IF count < MinShortsCount THEN MinShortsCount
                   ELSE IF count > MaxShortsCount THEN MaxShortsCount ELSE count
    IN  PyDict([k \in {"api_calls_required", "shorts_that_will_be_produced"} |->
            IF k = "api_calls_required" THEN PyInt(0)
            ELSE PyInt(IF clamped < nSections THEN clamped ELSE nSections)])

\* k.endswith("_calls"), over the keys the estimate can hold
EndsWithCalls(k) ==
    k \in {"long_script_api_calls", "title_api_calls", "thumbnail_api_calls",
           "total_estimated_api_calls"}

RECURSIVE SumValues(_, _)
\* sum(d[k] for k in keys)
SumValues(d, keys) ==
    IF keys = {} THEN 0
    ELSE LET k == CHOOSE x \in keys : TRUE
         IN  d[k].n + SumValues(d, keys \ {k})

\* a plausible slip: counting the long-script call only
TotalCallsFirstOnly(est) ==
    IF "long_script_api_calls" \in DOMAIN est THEN est["long_script_api_calls"].n ELSE 0

\* sum(v for k, v in est.items() if k.endswith("_calls"))
TotalCalls(est) == SumValues(est, {k \in DOMAIN est : EndsWithCalls(k)})

\* the dict est of the dry-run branch of api_server.generate
ServerEstimate(r) ==
    LET long == r.output \in {"long", "both"}
        shorts == r.output \in {"shorts", "both"}
        keys == {"preset", "theme", "tier"}
                \cup (IF long THEN {"long_script_estimated_tokens",
                                    "long_script_api_calls", "title_api_calls",
                                    "thumbnail_api_calls"} ELSE {})
                \cup (IF shorts THEN {"shorts_estimate"} ELSE {})
        est == [k \in keys |->
                 CASE k = "preset" -> PyStr(r.preset)
                   [] k = "theme"  -> PyStr(r.theme)
                   [] k = "tier"   -> PyStr(r.tier)
                   [] k = "long_script_estimated_tokens" ->
                        PyInt((VideoDurationMinutes * _words_per_minute(r.tier) * 14) \div 10)
                   [] k = "shorts_estimate" -> shorts_dry_run_estimate(0, r.shorts_count)
                   [] OTHER -> PyInt(1)]
    IN  PyDict(Put(est, "total_estimated_api_calls", PyInt(TotalCalls(est))))

ServerKeyFields(r) ==
    << <<"preset", PyStr(r.preset)>>, <<"theme", PyStr(r.theme)>>,
       <<"output", PyStr(r.output)>>, <<"tier", PyStr(r.tier)>>,
       <<"shorts_count", PyInt(r.shorts_count)>>,
       <<"duration", PyInt(VideoDurationMinutes)>> >>

ServerResult(r, long) ==
    LET keys == {"preset", "theme", "tier", "dry_run", "cached"}
                \cup (IF long THEN {"long_script", "titles", "thumbnail_texts"} ELSE {})
    IN  PyDict([k \in keys |->
            CASE k = "preset"  -> PyStr(r.preset)
              [] k = "theme"   -> PyStr(r.theme)
              [] k = "tier"    -> PyStr(r.tier)
              [] k = "long_script" -> PyStr("S1")
              [] k \in {"titles", "thumbnail_texts"} -> _parse_numbered_list(ListReply)
              [] OTHER -> PyBool(FALSE)])

\* a plausible slip: no check of the preset name
KnownPresetAny(preset) == TRUE

\* content_presets.get_preset does not raise
KnownPreset(preset) == preset \in ContentPresetNames

\* api_server.generate, from request validation to the response.  llmOk: the
\* LLM calls of this run succeed (otherwise the first one raises).
ServerGenerate(f, hasK, r, llmOk) ==
    LET none == PyNone
        key == make_cache_key(ServerKeyFields(r))
        g == get_cached(f, key, "api_responses")
        long == r.output \in {"long", "both"}
        w == set_cached(f, key, ServerResult(r, long), "api_responses", FALSE)
    IN
    IF r.shorts_count < MinShortsCount \/ r.shorts_count > MaxShortsCount
    THEN Effect("validation_error", 422, 0, 0, 0, none, f)
    ELSE IF ~KnownPreset(r.preset)
    THEN Effect("ValueError", 500, 0, 0, 0, none, f)
    ELSE IF r.dry_run
    THEN Effect("estimate", 200, 0, 0, 0, ServerEstimate(r), f)
    ELSE IF g.exc # ""
    THEN Effect(g.exc, 500, 0, 1, 0, none, f)
    ELSE IF Truthy(g.val)
    THEN Effect("cached", 200, 0, 1, 0, none, f)
    ELSE IF ~hasK
    THEN Effect("no_credential", 503, 0, 1, 0, none, f)
    ELSE IF long /\ ~llmOk
    THEN Effect("llm_error", 500, 1, 1, 0, none, f)
    ELSE IF r.output = "shorts"
    THEN Effect("no_long_script", 400, 0, 1, 0, none, f)
    ELSE Effect("fresh", 200, IF long THEN CallsPerGeneration ELSE 0, 1, 1, none, w.files)

RunServer(r, llmOk) ==
    LET e == ServerGenerate(files, hasKey, r, llmOk) IN
    /\ ep = EpIdle
    /\ ep' = EpDone("api_server", r, e)
    /\ files' = e.files
    /\ UNCHANGED <<enabled, hasKey, lastOp, amap>>
    /\ UNCHANGED <<keyVars, flowVars, wr, llm, sx, pf, rl>>

\* requests to api_server.generate: known and unknown presets, tiers and
\* outputs; live requests carry the default shorts_count
ServerRequests ==
    {r \in [preset : {"devotional", "sports"}, theme : {"a"},
            output : OutputTypes \cup {"reel"}, tier : {"free", "premium"},
            shorts_count : {0, 1, DefaultShortsCount, 8, 9}, dry_run : BOOLEAN] :
        /\ r.dry_run \/ r.shorts_count = DefaultShortsCount
        /\ r.shorts_count # DefaultShortsCount => r.output = "shorts"
        /\ r.preset = "sports" \/ r.tier = "premium" => r.output = "both"}

\* presets.NICHE_PRESETS and presets.COST_TIERS
NicheNames == {"finance", "ai_saas", "passive_income", "devotion"}
CsgTiers == {"free", "low_cost", "quality"}

\* niche.lower().replace("-", "_") on the names drawn
NormaliseNiche(niche) == IF niche = "Devotion" THEN "devotion" ELSE niche

\* ContentScriptGenerator.estimate_cost, token counts (the price in USD is
\* not carried), with dry_run = True added by generate
CsgEstimate(r) ==
    LET shorts_tokens == IF r.output_type \in {"shorts", "both"}
                         THEN ShortsCount * 200 + 150 ELSE 0
    IN  PyDict([k \in {"model", "estimated_input_tokens", "estimated_output_tokens",
                       "niche", "output_format", "theme", "cached", "dry_run"} |->
            CASE k = "model" -> PyStr(ScriptModel)
              [] k = "estimated_input_tokens"  -> PyInt(300)
              [] k = "estimated_output_tokens" -> PyInt(DurationMinutes * 200 + shorts_tokens)
              [] k = "niche"         -> PyStr(r.niche)
              [] k = "output_format" -> PyStr(r.output_type)
              [] k = "theme"         -> PyStr(r.theme)
              [] k = "cached"        -> PyBool(FALSE)
              [] k = "dry_run"       -> PyBool(TRUE)])

\* _generate_long_form / _generate_shorts as one step, after the effect e of
\* what ran before: lookup, on a miss the LLM call and the cache write
CsgPartRun(e, on, key, ok, value) ==
    LET g == CacheManager_get(e.files, key, "scripts")
        w == CacheManager_set(e.files, key, value, "scripts", FALSE)
        rd == IF on THEN 1 ELSE 0
    IN
    IF e.outcome # "ok" THEN e
    ELSE IF on /\ g.exc # ""
    THEN [e EXCEPT !.outcome = g.exc, !.reads = e.reads + 1]
    ELSE IF on /\ Truthy(g.val)
    THEN [e EXCEPT !.reads = e.reads + 1]
    ELSE IF ~ok
    THEN [e EXCEPT !.outcome = "llm_error", !.llm = e.llm + 1, !.reads = e.reads + rd]
    ELSE IF ~on
    THEN [e EXCEPT !.llm = e.llm + 1]
    ELSE [e EXCEPT !.llm = e.llm + 1, !.reads = e.reads + 1,
                   !.writes = e.writes + 1, !.files = w.files,
                   !.outcome = IF w.exc = "" THEN "ok" ELSE w.exc]

\* ContentScriptGenerator(niche, cost_tier, output_format, dry_run).generate(theme)
CsgRun(f, on, hasK, r, llmOk, lines) ==
    LET start == Effect("ok", 0, 0, 0, 0, PyNone, f)
        long == IF r.output_type \in {"long", "both"}
                THEN CsgPartRun(start, on, LongFormKey(r.theme), llmOk,
                                _structure_long_form(lines, r.theme))
                ELSE start
        all == IF r.output_type \in {"shorts", "both"}
               THEN CsgPartRun(long, on, ShortsKey(r.theme), llmOk, _parse_shorts(lines))
               ELSE long
    IN
    IF NormaliseNiche(r.niche) \notin NicheNames \/ r.cost_tier \notin CsgTiers
    THEN Effect("ValueError", 0, 0, 0, 0, PyNone, f)
    ELSE IF ~r.dry_run /\ ~hasK
    THEN Effect("ValueError", 0, 0, 0, 0, PyNone, f)
    ELSE IF r.dry_run
    THEN Effect("estimate", 0, 0, 0, 0, CsgEstimate(r), f)
    ELSE all

RunCsg(r, llmOk, lines) ==
    LET e == CsgRun(files, enabled, hasKey, r, llmOk, lines) IN
    /\ ep = EpIdle
    /\ ep' = EpDone("csg", r, e)
    /\ files' = e.files
    /\ UNCHANGED <<enabled, hasKey, lastOp, amap>>
    /\ UNCHANGED <<keyVars, flowVars, wr, llm, sx, pf, rl>>

\* api.generate_script: the three membership checks, then the generator
ApiGenerateScript(f, on, hasK, r, llmOk, lines) ==
    LET e == CsgRun(f, on, hasK, r, llmOk, lines) IN
    IF r.niche \notin NicheNames \/ r.output_type \notin OutputTypes
         \/ r.cost_tier \notin CsgTiers
    THEN Effect("rejected", 422, 0, 0, 0, PyNone, f)
    ELSE [e EXCEPT !.code = CASE e.outcome = "ValueError" -> 400
                              [] e.outcome \in {"ok", "estimate"} -> 200
                              [] OTHER -> 500]

RunApi(r, llmOk, lines) ==
    LET e == ApiGenerateScript(files, enabled, hasKey, r, llmOk, lines) IN
    /\ ep = EpIdle
    /\ ep' = EpDone("api", r, e)
    /\ files' = e.files
    /\ UNCHANGED <<enabled, hasKey, lastOp, amap>>
    /\ UNCHANGED <<keyVars, flowVars, wr, llm, sx, pf, rl>>

\* requests to api.generate_script and to the generator, live ones for the
\* one niche and tier whose keys LongFormKey and ShortsKey build
CsgRequests ==
    {r \in [niche : {"devotion", "cooking"}, theme : {"a"},
            output_type : OutputTypes \cup {"reel"}, cost_tier : {"free", "premium"},
            dry_run : BOOLEAN] :
        r.niche = "cooking" \/ r.cost_tier = "premium" => r.output_type = "both"}

\* the reply of the LLM in these runs
EntryReply == << Line("Just", "", FALSE, "prose") >>

\* channel_presets.get_preset: the names it resolves
ChannelNames == {"A", "B", "a", "b", "finance", "devotion"}

\* idea_key of cli._run_idea_engine
IdeaKey(a) ==
    << <<"type", PyStr("idea_bank")>>, <<"channel", PyStr(a.channel)>>,
       <<"theme", PyStr("a")>>, <<"week", PyInt(1)>>, <<"ideas_count", PyInt(1)>> >>

\* the parsed reply of the idea prompt
IdeaBank == PyDict([k \in {"ideas"} |-> PyList(<<>>)])

\* cli._run_idea_engine: cache.get, on None call_llm and cache.set
RunIdeaEngine(f, on, a, llmOk) ==
    LET g == ContentCache_get(f, on, IdeaKey(a))
        w == ContentCache_set(f, on, IdeaKey(a), IdeaBank, FALSE)
        rd == IF on THEN 1 ELSE 0
    IN
    IF g.exc # ""
    THEN Effect(g.exc, 1, 0, rd, 0, PyNone, f)
    ELSE IF g.val # PyNone
    THEN Effect("ideas", 0, 0, rd, 0, PyNone, f)
    ELSE IF ~llmOk
    THEN Effect("llm_error", 1, 1, rd, 0, PyNone, f)
    ELSE Effect("ideas", 0, 1, rd, rd, PyNone, w.files)

\* cli.estimate_costs: the model it prices (the prices are not carried)
CliEstimate(a) ==
    PyDict([k \in {"model"} |->
        PyStr(IF a.cost_tier = "high" THEN "gpt-4" ELSE "gpt-3.5-turbo")])

\* cli.run_pipeline; on is Config.ENABLE_CACHE after --no-cache was applied.
\* The two pipelines are one step that calls the LLM.
CliRunPipeline(f, on, hasK, a, llmOk) ==
    IF a.channel \notin ChannelNames
    THEN Effect("ValueError", 1, 0, 0, 0, PyNone, f)
    ELSE IF a.ideas
    THEN IF ~hasK
         THEN Effect("ValueError", 1, 0, 0, 0, PyNone, f)
         ELSE RunIdeaEngine(f, on, a, llmOk)
    ELSE IF a.dry_run
    THEN Effect("estimate", 0, 0, 0, 0, CliEstimate(a), f)
    ELSE IF ~hasK
    THEN Effect("ValueError", 1, 0, 0, 0, PyNone, f)
    ELSE Effect(IF llmOk THEN "pipeline" ELSE "llm_error",
                IF llmOk THEN 0 ELSE 1, 1, 0, 0, PyNone, f)

RunCli(a, llmOk) ==
    LET on == enabled /\ ~a.no_cache
        e == CliRunPipeline(files, on, hasKey, a, llmOk)
    IN
    /\ ep = EpIdle
    /\ ep' = EpDone("cli", a, e)
    /\ files' = e.files
    /\ enabled' = on
    /\ UNCHANGED <<hasKey, lastOp, amap>>
    /\ UNCHANGED <<keyVars, flowVars, wr, llm, sx, pf, rl>>

CliArgs ==
    [channel : {"B", "C"}, output : {"both"}, cost_tier : {"high"},
     dry_run : BOOLEAN, ideas : BOOLEAN, no_cache : BOOLEAN]

\* quick_start.run_dry_run: the api_calls it reports
QsEstimate(a) ==
    PyDict([k \in {"api_calls"} |->
        PyInt(IF a.output \in {"long", "both"} THEN CallsPerGeneration ELSE 0)])

QsStageCredentialFirst(hasK, a) ==
    IF ~hasK THEN "no_credential" ELSE IF a.dry_run THEN "dry_run" ELSE "live"

\* quick_start.main after the preset lookup: the dry-run return comes before
\* the check of Config.OPENAI_API_KEY
QsStage(hasK, a) ==
    IF a.dry_run THEN "dry_run" ELSE IF ~hasK THEN "no_credential" ELSE "live"

\* quick_start.main for a dry run or a live run of --output long (a live run
\* with shorts goes on to generate_shorts after these steps); code is the
\* exit code
QsMain(f, hasK, a, llmOk) ==
    LET r == [entry |-> "qs", theme |-> a.theme]
        key == make_cache_key(QsKeyFields(r))
        g == get_cached(f, key, "scripts")
        d == ResultAfterCall(ResultAfterCall(ResultAfterCall(ResultStart(r),
                 1, "S1"), 2, "S1"), 3, "S1")
        w == set_cached(f, key, d, "scripts", FALSE)
    IN
    IF ~KnownPreset(a.preset)
    THEN Effect("ValueError", 1, 0, 0, 0, PyNone, f)
    ELSE IF QsStage(hasK, a) = "dry_run"
    THEN Effect("estimate", 0, 0, 0, 0, QsEstimate(a), f)
    ELSE IF QsStage(hasK, a) = "no_credential"
    THEN Effect("no_credential", 1, 0, 0, 0, PyNone, f)
    ELSE IF g.exc # ""
    THEN Effect(g.exc, 1, 0, 1, 0, PyNone, f)
    ELSE IF Truthy(g.val)
    THEN Effect("cached", 0, 0, 1, 0, PyNone, f)
    ELSE IF ~llmOk
    THEN Effect("llm_error", 1, 1, 1, 0, PyNone, f)
    ELSE Effect("fresh", 0, CallsPerGeneration, 1, 1, PyNone, w.files)

RunQs(a, llmOk) ==
    LET e == QsMain(files, hasKey, a, llmOk) IN
    /\ ep = EpIdle
    /\ ep' = EpDone("qs", a, e)
    /\ files' = e.files
    /\ UNCHANGED <<enabled, hasKey, lastOp, amap>>
    /\ UNCHANGED <<keyVars, flowVars, wr, llm, sx, pf, rl>>

QsArgs ==
    {a \in [preset : {"devotional", "sports"}, theme : {"a"},
            output : OutputTypes, tier : {"free"}, dry_run : BOOLEAN] :
        a.dry_run \/ (a.preset = "devotional" /\ a.output = "long")} \cup
    {[preset |-> "sports", theme |-> "a", output |-> "long", tier |-> "free",
      dry_run |-> FALSE]}

\* the credential is set or unset between runs
SetCredential(b) ==
    /\ ep = EpIdle
    /\ hasKey # b
    /\ hasKey' = b
    /\ UNCHANGED <<files, enabled, lastOp, amap>>
    /\ UNCHANGED <<keyVars, flowVars, extVars>>

\* what the runs of earlier processes can leave behind
EarlierEffects(f, on, hasK) ==
    {ServerGenerate(f, hasK, r, TRUE) : r \in ServerRequests} \cup
    {CsgRun(f, on, hasK, r, TRUE, EntryReply) : r \in CsgRequests} \cup
    {CliRunPipeline(f, on, hasK, a, TRUE) : a \in CliArgs} \cup
    {QsMain(f, hasK, a, TRUE) : a \in QsArgs}

\* an earlier run filled the cache
EarlierRun ==
    /\ ep = EpIdle
    /\ \E e \in EarlierEffects(files, enabled, hasKey) :
          /\ e.files # files
          /\ files' = e.files
    /\ UNCHANGED <<enabled, hasKey, lastOp, amap>>
    /\ UNCHANGED <<keyVars, flowVars, extVars>>

InitEntry ==
    /\ KeysIdle
    /\ StoreIdle
    /\ enabled \in BOOLEAN
    /\ hasKey \in BOOLEAN
    /\ FlowIdle
    /\ ExtIdle

NextEntry ==
    \/ \E r \in ServerRequests, llmOk \in BOOLEAN : RunServer(r, llmOk)
    \/ \E r \in CsgRequests, llmOk \in BOOLEAN : RunApi(r, llmOk, EntryReply)
    \/ \E r \in CsgRequests, llmOk \in BOOLEAN : RunCsg(r, llmOk, EntryReply)
    \/ \E a \in CliArgs, llmOk \in BOOLEAN : RunCli(a, llmOk)
    \/ \E a \in QsArgs, llmOk \in BOOLEAN : RunQs(a, llmOk)
    \/ \E b \in BOOLEAN : SetCredential(b)
    \/ EarlierRun

SpecEntry == InitEntry /\ [][NextEntry]_vars

(***************************************************************************)
(* shorts_extractor.ShortsExtractor: one LLM call, then the reply is split *)
(* at its "SHORT n:" markers.  A reply is a sequence of pieces: a marker   *)
(* (a match of SHORT\s+\d+\s*:) or the text up to the next marker or line  *)
(* end, given as its section label ("" for none) and its stripped rest.    *)
(***************************************************************************)
Marker == [kind |-> "marker", sect |-> "", text |-> ""]

Txt(sect, text) == [kind |-> "line", sect |-> sect, text |-> text]

\* line.strip() is empty
IsBlank(l) == l.sect = "" /\ l.text = ""

\* line.strip() of a piece of text
StrippedTxt(l) ==
    IF l.sect = "" THEN l.text
    ELSE IF l.sect = "---" THEN "---"
    ELSE l.sect \o ":" \o (IF l.text = "" THEN "" ELSE " " \o l.text)

\* re.split(r"(?i)SHORT\s+\d+\s*:", raw): the text before the first marker,
\* then the text after each marker up to the next one
SplitBlocks(raw) ==
    LET at == {i \in 1..Len(raw) : raw[i].kind = "marker"}
        nth(k) == IF k = 0 THEN 0
                  ELSE IF k > Cardinality(at) THEN Len(raw) + 1
                  ELSE CHOOSE i \in at : Cardinality({q \in at : q < i}) = k - 1
    IN  [k \in 1..(Cardinality(at) + 1) |-> SubSeq(raw, nth(k - 1) + 1, nth(k) - 1)]

\* the parts of a short while its block is read; section "" stands for None
ShortParts(title) ==
    [title |-> title, hook |-> <<>>, script |-> <<>>, caption |-> <<>>,
     hashtags |-> <<>>, section |-> "", stopped |-> FALSE]

RECURSIVE BlockLoop(_, _)
\* for line in lines[1:] of ShortsExtractor._parse_shorts
BlockLoop(lines, c) ==
    IF Len(lines) = 0 \/ c.stopped THEN c
    ELSE LET l == Head(lines)
             one == IF l.text = "" THEN <<>> ELSE <<l.text>>
         IN  BlockLoop(Tail(lines),
               CASE IsBlank(l)          -> c
                 [] l.sect = "HOOK"     -> [c EXCEPT !.section = "hook", !.hook = one]
                 [] l.sect = "SCRIPT"   -> [c EXCEPT !.section = "script", !.script = one]
                 [] l.sect = "CAPTION"  -> [c EXCEPT !.section = "caption", !.caption = one]
                 [] l.sect = "HASHTAGS" -> [c EXCEPT !.section = "hashtags",
                                                     !.hashtags = one]
                 [] l.sect = "---"      -> [c EXCEPT !.stopped = TRUE]
                 [] OTHER ->
                      CASE c.section = "hook"    -> [c EXCEPT !.hook = Append(@, l.text)]
                        [] c.section = "script"  -> [c EXCEPT !.script = Append(@, l.text)]
                        [] c.section = "caption" -> [c EXCEPT !.caption = Append(@, l.text)]
                        [] OTHER -> c)

\* the dict appended for a block (a HASHTAGS line is drawn as one tag)
ShortDict(c) ==
    PyDict([k \in {"title", "hook", "script", "caption", "hashtags", "format",
                   "max_duration_seconds"} |->
        CASE k = "title"    -> PyStr(c.title)
          [] k = "hook"     -> PyStr(Join(" ", c.hook))
          [] k = "script"   -> PyStr(Join(" ", c.script))
          [] k = "caption"  -> PyStr(Join(" ", c.caption))
          [] k = "hashtags" -> PyList([j \in 1..Len(c.hashtags) |-> PyStr(c.hashtags[j])])
          [] k = "format"   -> PyStr("9:16")
          [] k = "max_duration_seconds" -> PyInt(60)])

RECURSIVE DropBlank(_)
\* block.strip().split("\n"): the lines from the first non-blank one on
DropBlank(block) ==
    IF Len(block) = 0 \/ ~IsBlank(Head(block)) THEN block ELSE DropBlank(Tail(block))

\* one block of the reply as a short: the first line is the title
BlockShort(block) ==
    LET lines == DropBlank(block)
    IN  ShortDict(BlockLoop(Tail(lines), ShortParts(StrippedTxt(Head(lines)))))

\* a plausible slip: returning every block that was parsed
TakeAll(shorts, expected_count) == shorts

\* shorts[:expected_count]
Take(shorts, expected_count) ==
    SubSeq(shorts, 1, IF Len(shorts) < expected_count THEN Len(shorts) ELSE expected_count)

\* ShortsExtractor._parse_shorts(raw, expected_count); every block that is
\* not blank has a title, so each gives a short
ShortsExtractor_parse_shorts(raw, expected_count) ==
    LET blocks == SelectSeq(SplitBlocks(raw),
                            LAMBDA b : \E j \in 1..Len(b) : ~IsBlank(b[j]))
    IN  PyList(Take([j \in 1..Len(blocks) |-> BlockShort(blocks[j])], expected_count))

\* min(max(num_shorts, 1), 8)
ClampShorts(num_shorts) ==
    IF num_shorts < 1 THEN 1 ELSE IF num_shorts > 8 THEN 8 ELSE num_shorts

\* the most "SHORT n:" markers in a reply
MaxBlocks == 9

\* the block the LLM writes for short j in each shape of reply
ReplyBlock(shape, j) ==
    CASE shape = "full" ->
            << Marker, Txt("", "Title " \o ToString(j)), Txt("HOOK", "Stop"),
               Txt("", "now"), Txt("SCRIPT", ""), Txt("", "Breathe"),
               Txt("CAPTION", "Calm"), Txt("HASHTAGS", "#calm"), Txt("---", ""),
               Txt("", "") >>
      [] shape = "bare" -> << Marker, Txt("", ""), Txt("HOOK", "Stop " \o ToString(j)) >>
      [] OTHER -> IF j % 2 = 0 THEN << Marker, Txt("", "") >>
                  ELSE << Marker, Txt("", "Title " \o ToString(j)) >>

RECURSIVE ReplyBlocks(_, _)
ReplyBlocks(shape, n) ==
    IF n = 0 THEN <<>> ELSE ReplyBlocks(shape, n - 1) \o ReplyBlock(shape, n)

\* a reply: an optional preamble, then n blocks of one shape
RawReply(preamble, shape, n) ==
    (IF preamble THEN << Txt("", "Here are your shorts") >> ELSE <<>>)
        \o ReplyBlocks(shape, n)

\* extract_shorts is called: the clamp, the prompt, the request to the LLM
SxCall ==
    /\ sx.st = "called"
    /\ sx' = [sx EXCEPT !.st = "asked", !.asked = ClampShorts(sx.num_shorts)]
    /\ UNCHANGED <<keyVars, storeVars, flowVars, wr, llm, ep, pf, rl>>

\* the LLM answers (or the request raises) and the reply is parsed
SxReply(ok) ==
    /\ sx.st = "asked"
    /\ sx' = IF ok
             THEN [sx EXCEPT !.st = "done",
                      !.result = ShortsExtractor_parse_shorts(
                                     RawReply(sx.preamble, sx.shape, sx.blocks), sx.asked)]
             ELSE [sx EXCEPT !.st = "raised"]
    /\ UNCHANGED <<keyVars, storeVars, flowVars, wr, llm, ep, pf, rl>>

InitShorts ==
    /\ KeysIdle
    /\ StoreIdle
    /\ enabled = TRUE
    /\ hasKey = TRUE
    /\ FlowIdle
    /\ wr = WrIdle /\ llm = LlmIdle /\ ep = EpIdle
    /\ pf = PfIdle /\ rl = RlIdle
    /\ sx \in [st : {"called"}, num_shorts : {-1, 0, 1, 2, 4, 8, 9, 10},
               preamble : BOOLEAN, shape : {"full", "bare", "mixed"},
               blocks : 0..MaxBlocks, asked : {0}, result : {PyNone}]

NextShorts ==
    \/ SxCall
    \/ \E ok \in BOOLEAN : SxReply(ok)

SpecShorts == InitShorts /\ [][NextShorts]_vars

(***************************************************************************)
(* The caption of a locally derived short (shorts_extractor.extract_shorts,*)
(* the rule-based deriver): the hook, cut when it is long.  A hook is the  *)
(* sequence of its characters, each written as its position; the          *)
(* characters of the ellipsis are written 0.                               *)
(***************************************************************************)
\* the longest hook drawn
MaxHookLen == 64

Ellipsis == <<0, 0, 0>>

\* a plausible slip: the hook is never cut
caption_text_verbatim(hook) == hook

\* caption_text of a short: the hook verbatim up to 60 characters, else its
\* first 57 characters and the ellipsis
caption_text(hook) ==
    IF Len(hook) <= 60 THEN hook ELSE SubSeq(hook, 1, 57) \o Ellipsis

Hooks == {[j \in 1..n |-> j] : n \in 0..MaxHookLen}

\* the caption of a short is derived from its hook
SxCaption ==
    /\ sx.st = "hook"
    /\ sx' = [sx EXCEPT !.st = "captioned", !.caption = caption_text(sx.hook)]
    /\ UNCHANGED <<keyVars, storeVars, flowVars, wr, llm, ep, pf, rl>>

InitCaption ==
    /\ KeysIdle
    /\ StoreIdle
    /\ enabled = TRUE
    /\ hasKey = TRUE
    /\ FlowIdle
    /\ wr = WrIdle /\ llm = LlmIdle /\ ep = EpIdle
    /\ pf = PfIdle /\ rl = RlIdle
    /\ sx \in [st : {"hook"}, hook : Hooks, caption : {<<>>}]

NextCaption == SxCaption

SpecCaption == InitCaption /\ [][NextCaption]_vars

(***************************************************************************)
(* The two script parsers applied to drawn texts:                          *)
(* ContentScriptGenerator._structure_long_form and                         *)
(* DevotionalScriptGenerator._structure_script.                            *)
(***************************************************************************)
\* the most lines in a drawn text
MaxLines == 4

\* the lines a text is drawn from
TextLines ==
    { Line("SECTION", " 1", TRUE, "Peace"), Line("SECTION", " 2", TRUE, "Joy"),
      Line("HOOK", "", TRUE, ""), Line("RECAP", "", TRUE, ""),
      Line("SEGMENT", " 1", TRUE, "Dawn"), Line("SEGMENT", " 2", FALSE, ""),
      Line("", "", FALSE, "alpha"), Line("", "", FALSE, "beta"), BlankLine }

Texts == UNION {[1..n -> TextLines] : n \in 0..MaxLines}

SegmentDict(title, lines) ==
    PyDict([k \in {"title", "content", "duration"} |->
        CASE k = "title"   -> PyStr(title)
          [] k = "content" -> PyStr(Join(" ", lines))
          [] k = "duration" -> PyInt(300)])

RECURSIVE SegmentLoop(_, _, _, _)
\* the for loop of _structure_script: seg "" stands for None; current_content
\* is emptied only when a segment is saved
SegmentLoop(lines, segments, seg, cur) ==
    IF Len(lines) = 0
    THEN IF seg # "" /\ Len(cur) > 0
         THEN Append(segments, SegmentDict(seg, cur)) ELSE segments
    ELSE LET l == Head(lines)
             saved == IF seg # "" THEN Append(segments, SegmentDict(seg, cur))
                      ELSE segments
         IN
         IF Stripped(l) = ""
         THEN SegmentLoop(Tail(lines), segments, seg, cur)
         ELSE IF l.head = "SEGMENT"
         THEN SegmentLoop(Tail(lines), saved,
                  IF l.colon THEN l.rest ELSE "Part " \o ToString(Len(saved) + 1),
                  IF seg # "" THEN <<>> ELSE cur)
         ELSE SegmentLoop(Tail(lines), segments, seg, Append(cur, Stripped(l)))

\* DevotionalScriptGenerator._structure_script: the segments and the script
\* joined from them (theme and total_duration are not carried)
_structure_script(lines) ==
    LET segments == SegmentLoop(lines, <<>>, "", <<>>)
    IN  PyDict([k \in {"segments", "full_script"} |->
            IF k = "segments" THEN PyList(segments)
            ELSE PyStr(Join("\n\n", [j \in 1..Len(segments) |->
                                        segments[j].kv["content"].s]))])

\* a parser is applied to the text
Parse(parser) ==
    /\ pf.st = "text"
    /\ pf' = [pf EXCEPT !.st = "parsed", !.parser = parser,
                !.out = IF parser = "_structure_long_form"
                        THEN _structure_long_form(pf.lines, "a").kv["sections"].xs
                        ELSE _structure_script(pf.lines).kv["segments"].xs]
    /\ UNCHANGED <<keyVars, storeVars, flowVars, wr, llm, ep, sx, rl>>

InitParse ==
    /\ KeysIdle
    /\ StoreIdle
    /\ enabled = TRUE
    /\ hasKey = TRUE
    /\ FlowIdle
    /\ wr = WrIdle /\ llm = LlmIdle /\ ep = EpIdle /\ sx = SxIdle /\ rl = RlIdle
    /\ pf \in [st : {"text"}, lines : Texts, parser : {""}, out : {<<>>}]

NextParse == \E parser \in {"_structure_long_form", "_structure_script"} : Parse(parser)

SpecParse == InitParse /\ [][NextParse]_vars

(***************************************************************************)
(* The cost estimators: cli.estimate_costs and                             *)
(* ContentScriptGenerator.estimate_cost.  Amounts of money are whole       *)
(* numbers of 10^-8 USD, which every price per token and every product in  *)
(* the two functions is a multiple of; a rounded amount is a whole number  *)
(* of the unit it was rounded to.  The functions compute in doubles: an    *)
(* amount that lies exactly between two rounded values is a double just    *)
(* below or just above it, so round() takes it down or up; which one is    *)
(* fixed by the arithmetic of the platform (up[k] for the amount k).       *)
(***************************************************************************)
\* round(x, digits) for x >= 0 given in 10^-8 USD: the nearest multiple of
\* q = 10^(8 - digits), counted in q's
Round(x, q, tieUp) ==
    LET lo == x \div q
        twice == 2 * (x % q)
    IN  IF twice > q \/ (twice = q /\ tieUp) THEN lo + 1 ELSE lo

\* the amounts that are rounded
RoundedKeys ==
    {"script_generation", "shorts_extraction", "titles_thumbnails", "tts_narration",
     "total_usd", "estimated_cost_usd"}

\* channel_presets: CHANNEL_A_FINANCE and CHANNEL_B_DEVOTION
ChannelPresets ==
    { [channel_id |-> "A", long_video_duration_minutes |-> 7,
       short_video_duration_seconds |-> 60],
      [channel_id |-> "B", long_video_duration_minutes |-> 10,
       short_video_duration_seconds |-> 60] }

\* a plausible slip: the shorts are taken off the total of a long-only run
CliTotalMinus(script_cost, shorts_cost, titles_cost, tts_cost, output_type) ==
    script_cost + titles_cost + tts_cost
        - (IF output_type = "long" THEN shorts_cost ELSE 0)

\* total of cli.estimate_costs
CliTotal(script_cost, shorts_cost, titles_cost, tts_cost, output_type) ==
    script_cost + (IF output_type # "long" THEN shorts_cost ELSE 0)
        + titles_cost + tts_cost

\* cli.estimate_costs(preset, output_type, cost_tier, num_shorts)
estimate_costs(preset, output_type, cost_tier, num_shorts, up) ==
    LET long_words == preset.long_video_duration_minutes * 130
        long_input_tokens == 400
        long_output_tokens == (long_words * 4) \div 3
        short_input_tokens == long_output_tokens + 400
        short_output_tokens ==
            (preset.short_video_duration_seconds * 130 * num_shorts * 4) \div 180 + 200
        title_tokens == 200
        model == IF cost_tier = "high" THEN "gpt-4" ELSE "gpt-3.5-turbo"
        in_price == IF model = "gpt-4" THEN 3000 ELSE 150
        out_price == IF model = "gpt-4" THEN 6000 ELSE 200
        script_cost == long_input_tokens * in_price + long_output_tokens * out_price
        shorts_cost == short_input_tokens * in_price + short_output_tokens * out_price
        titles_cost == title_tokens * in_price + title_tokens * out_price
        tts_cost == IF cost_tier = "free" THEN 0 ELSE long_words * 5 * 30000
        total == CliTotal(script_cost, shorts_cost, titles_cost, tts_cost, output_type)
    IN  [model |-> model,
         tts_service |-> CASE cost_tier = "free" -> "gTTS (free)"
                           [] cost_tier = "low"  -> "ElevenLabs starter"
                           [] OTHER              -> "ElevenLabs professional",
         script_generation |-> Round(script_cost, 10000, up["script_generation"]),
         shorts_extraction |-> IF output_type # "long" THEN Round(shorts_cost, 10000, up["shorts_extraction"])
                               ELSE 0,
         titles_thumbnails |-> Round(titles_cost, 10000, up["titles_thumbnails"]),
         tts_narration |-> Round(tts_cost, 10000, up["tts_narration"]),
         total_usd |-> Round(total, 10000, up["total_usd"])]

\* presets.NICHE_PRESETS: long_form.duration_minutes and shorts.count
NichePresets ==
    { [niche |-> "finance", duration_minutes |-> 8, count |-> 6],
      [niche |-> "ai_saas", duration_minutes |-> 8, count |-> 7],
      [niche |-> "passive_income", duration_minutes |-> 9, count |-> 6],
      [niche |-> "devotion", duration_minutes |-> 30, count |-> 5] }

\* COST_TIERS[tier]["script_model"]
TierModel(tier) ==
    CASE tier = "free" -> "gpt-3.5-turbo"
      [] tier = "low_cost" -> "gpt-4o-mini"
      [] tier = "quality" -> "gpt-4o"

\* _COST_PER_1K_INPUT.get(model, 0.005) / 1000
CostPerInputToken(model) ==
    CASE model = "gpt-3.5-turbo" -> 50
      [] model = "gpt-4o-mini" -> 15
      [] model = "gpt-4" -> 3000
      [] OTHER -> 500

\* _COST_PER_1K_OUTPUT.get(model, 0.015) / 1000
CostPerOutputToken(model) ==
    CASE model = "gpt-3.5-turbo" -> 150
      [] model = "gpt-4o-mini" -> 60
      [] model = "gpt-4" -> 6000
      [] OTHER -> 1500

\* ContentScriptGenerator.estimate_cost for a generator of the preset, tier
\* and output format (theme, niche and cached are not carried)
estimate_cost(preset, tier, output_format, up) ==
    LET shorts_tokens == IF output_format \in {"shorts", "both"}
                         THEN preset.count * 200 + 150 ELSE 0
        total_input == 300
        total_output == preset.duration_minutes * 200 + shorts_tokens
        model == TierModel(tier)
    IN  [model |-> model,
         estimated_input_tokens |-> total_input,
         estimated_output_tokens |-> total_output,
         estimated_cost_usd |-> Round(total_input * CostPerInputToken(model)
                                        + total_output * CostPerOutputToken(model), 1000,
                                      up["estimated_cost_usd"])]

\* the estimator pf.args names, applied to them
Estimated(a, up) ==
    IF a.f = "estimate_costs"
    THEN estimate_costs(a.preset, a.output, a.tier, a.num_shorts, up)
    ELSE estimate_cost(a.preset, a.tier, a.output, up)

\* the estimator is called
Estimate ==
    /\ pf.st = "args"
    /\ pf' = [pf EXCEPT !.st = "once", !.first = Estimated(pf.args, pf.up)]
    /\ UNCHANGED <<keyVars, storeVars, flowVars, wr, llm, ep, sx, rl>>

\* ... and called again with the same arguments; in between the credential
\* and the cache switch may have changed
EstimateAgain(key, on) ==
    /\ pf.st = "once"
    /\ pf' = [pf EXCEPT !.st = "twice", !.second = Estimated(pf.args, pf.up)]
    /\ hasKey' = key /\ enabled' = on
    /\ UNCHANGED <<files, lastOp, amap>>
    /\ UNCHANGED <<keyVars, flowVars, wr, llm, ep, sx, rl>>

\* the valid arguments of the two estimators
EstimateArgs ==
    [f : {"estimate_costs"}, preset : ChannelPresets, output : OutputTypes,
     tier : {"free", "low", "high"}, num_shorts : MinShortsCount..MaxShortsCount]
    \cup
    [f : {"estimate_cost"}, preset : NichePresets, output : OutputTypes, tier : CsgTiers]

InitCost ==
    /\ KeysIdle
    /\ StoreIdle
    /\ enabled = TRUE
    /\ hasKey = TRUE
    /\ FlowIdle
    /\ wr = WrIdle /\ llm = LlmIdle /\ ep = EpIdle /\ sx = SxIdle /\ rl = RlIdle
    /\ pf \in [st : {"args"}, args : EstimateArgs, up : [RoundedKeys -> BOOLEAN],
               first : {PyNone}, second : {PyNone}]

NextCost ==
    \/ Estimate
    \/ \E key \in BOOLEAN, on \in BOOLEAN : EstimateAgain(key, on)

SpecCost == InitCost /\ [][NextCost]_vars

(***************************************************************************)
(* api_server.check_rate_limit on the shared _request_log.  Time is in     *)
(* seconds.  rl.hist is the history of the decisions (not program state).  *)
(* generate is a plain def, so the server runs it, and its dependencies,   *)
(* in worker threads: a check is the steps prune (the list is read and     *)
(* filtered, then stored), length check and append.                        *)
(***************************************************************************)
\* window = 60.0
Window == 60

\* Config.RATE_LIMIT_PER_MINUTE as configured for the runs
RateLimitPerMinute == 2

\* the most checks in a behaviour, and the latest time on the clock
MaxChecks == 5
MaxTime == 120

\* the most checks in a behaviour of the concurrent threads
MaxConcurrentChecks == 3

Threads == {1, 2}

\* the requests: the addresses of X-Forwarded-For (none without the header)
\* and request.client.host ("" without client)
RlRequests ==
    { [forwarded |-> <<>>, host |-> "10.0.0.1"],
      [forwarded |-> <<>>, host |-> "10.0.0.2"],
      [forwarded |-> <<"10.0.0.1", "10.0.0.9">>, host |-> "10.0.0.2"],
      [forwarded |-> <<>>, host |-> ""] }

\* _get_client_ip
_get_client_ip(request) ==
    IF Len(request.forwarded) > 0 THEN request.forwarded[1]
    ELSE IF request.host # "" THEN request.host ELSE "unknown"

ClientIps == {_get_client_ip(r) : r \in RlRequests}

\* [t for t in _request_log[ip] if now - t < window]
Pruned(log, now) == SelectSeq(log, LAMBDA t : now - t < Window)

\* a plausible slip: one request too many passes
OverLimitStrict(n, limit) == n > limit

\* len(_request_log[ip]) >= limit
OverLimit(n, limit) == n >= limit

Decision(ip, t, status) == [ip |-> ip, t |-> t, status |-> status]

ThreadIdle == [pc |-> "idle", ip |-> "", now |-> 0, tmp |-> <<>>]

RlStart ==
    [st |-> "run", log |-> [ip \in ClientIps |-> <<>>], clock |-> 0, hist |-> <<>>,
     n |-> 0, th |-> [t \in Threads |-> ThreadIdle]]

\* the time steps between two readings of the clock
TimeSteps == {0, 30, 60}

\* check_rate_limit as a whole, for a request that arrives dt after the last
RlCheckRateLimit(request, dt) ==
    LET ip == _get_client_ip(request)
        now == rl.clock + dt
        kept == Pruned(rl.log[ip], now)
        over == OverLimit(Len(kept), RateLimitPerMinute)
    IN
    /\ rl.st = "run" /\ rl.n < MaxChecks /\ now <= MaxTime
    /\ rl' = [rl EXCEPT !.clock = now, !.n = rl.n + 1,
                !.log[ip] = IF over THEN kept ELSE Append(kept, now),
                !.hist = Append(rl.hist, Decision(ip, now, IF over THEN 429 ELSE 200))]
    /\ UNCHANGED <<keyVars, storeVars, flowVars, wr, llm, ep, sx, pf>>

\* thread t enters check_rate_limit: ip and now
RlEnter(t, request, dt) ==
    /\ rl.st = "run" /\ rl.n < MaxConcurrentChecks /\ rl.clock + dt <= MaxTime
    /\ rl.th[t].pc = "idle"
    /\ rl' = [rl EXCEPT !.clock = rl.clock + dt, !.n = rl.n + 1,
                !.th[t] = [pc |-> "filter", ip |-> _get_client_ip(request),
                           now |-> rl.clock + dt, tmp |-> <<>>]]
    /\ UNCHANGED <<keyVars, storeVars, flowVars, wr, llm, ep, sx, pf>>

\* the list comprehension reads the list of the ip
RlFilter(t) ==
    /\ rl.th[t].pc = "filter"
    /\ rl' = [rl EXCEPT !.th[t].pc = "store",
                !.th[t].tmp = Pruned(rl.log[rl.th[t].ip], rl.th[t].now)]
    /\ UNCHANGED <<keyVars, storeVars, flowVars, wr, llm, ep, sx, pf>>

\* _request_log[ip] = <the filtered list>
RlStore(t) ==
    /\ rl.th[t].pc = "store"
    /\ rl' = [rl EXCEPT !.th[t].pc = "check", !.log[rl.th[t].ip] = rl.th[t].tmp]
    /\ UNCHANGED <<keyVars, storeVars, flowVars, wr, llm, ep, sx, pf>>

\* the length check: 429 or on to the append
RlCheck(t) ==
    /\ rl.th[t].pc = "check"
    /\ rl' = IF OverLimit(Len(rl.log[rl.th[t].ip]), RateLimitPerMinute)
             THEN [rl EXCEPT !.th[t] = ThreadIdle,
                      !.hist = Append(rl.hist, Decision(rl.th[t].ip, rl.th[t].now, 429))]
             ELSE [rl EXCEPT !.th[t].pc = "append"]
    /\ UNCHANGED <<keyVars, storeVars, flowVars, wr, llm, ep, sx, pf>>

\* _request_log[ip].append(now): the request is accepted
RlAppend(t) ==
    /\ rl.th[t].pc = "append"
    /\ rl' = [rl EXCEPT !.th[t] = ThreadIdle,
                !.log[rl.th[t].ip] = Append(rl.log[rl.th[t].ip], rl.th[t].now),
                !.hist = Append(rl.hist, Decision(rl.th[t].ip, rl.th[t].now, 200))]
    /\ UNCHANGED <<keyVars, storeVars, flowVars, wr, llm, ep, sx, pf>>

InitRate ==
    /\ KeysIdle
    /\ StoreIdle
    /\ enabled = TRUE
    /\ hasKey = TRUE
    /\ FlowIdle
    /\ wr = WrIdle /\ llm = LlmIdle /\ ep = EpIdle /\ sx = SxIdle /\ pf = PfIdle
    /\ rl = RlStart

\* requests handled one after the other
NextRate == \E request \in RlRequests, dt \in TimeSteps : RlCheckRateLimit(request, dt)

SpecRate == InitRate /\ [][NextRate]_vars

\* requests handled by two threads at once
NextRateConc ==
    \E t \in Threads :
        \/ \E request \in RlRequests, dt \in TimeSteps : RlEnter(t, request, dt)
        \/ RlFilter(t)
        \/ RlStore(t)
        \/ RlCheck(t)
        \/ RlAppend(t)

SpecRateConc == InitRate /\ [][NextRateConc]_vars

(***************************************************************************)
(* The credential checks in front of the handlers: check_api_key of        *)
(* api_server and _check_auth of api.  pf holds the configuration and the  *)
(* last request with its answer.                                           *)
(***************************************************************************)
\* Config.API_KEY: os.getenv("API_KEY"), None when the variable is not set
ApiKeys == {PyNone, PyStr(""), PyStr("s3cret")}

\* the X-API-Key header of a request (PyNone: no such header)
ApiKeyHeaders == {PyNone, PyStr(""), PyStr("s3cret"), PyStr("S3CRET"), PyStr("guess")}

\* Config.API_USERNAME and Config.API_PASSWORD, not declared in config.py:
\* "set to enable HTTP Basic Auth (leave empty to disable)"
ApiUsernames == {"", "admin"}
ApiPasswords == {"", "pa55"}

BasicCredentials(username, password) ==
    [t |-> "basic", username |-> username, password |-> password]

\* what HTTPBasic(auto_error=False) hands to _check_auth: None without a
\* usable Authorization header
Credentials ==
    {PyNone} \cup {BasicCredentials(u, p) : u \in {"", "admin", "Admin"},
                                             p \in {"", "pa55", "pa5"}}

\* the routes of api and whether they depend on _check_auth
ApiRoutes == {"/", "/niches", "/tiers", "/generate", "/estimate"}
ApiProtected(route) == route # "/"

\* request.headers.get("X-API-Key", "")
ProvidedKey(header) == IF header = PyNone THEN PyStr("") ELSE header

\* check_api_key: the status it raises, 200 when it returns
check_api_key(api_key, header) ==
    IF Truthy(api_key) /\ ProvidedKey(header) # api_key THEN 401 ELSE 200

\* a plausible slip: one matching part is enough
CredentialsOkEither(credentials, expected_user, expected_pass) ==
    \/ credentials.username = expected_user
    \/ credentials.password = expected_pass

\* user_ok and pass_ok
CredentialsOk(credentials, expected_user, expected_pass) ==
    /\ credentials.username = expected_user
    /\ credentials.password = expected_pass

\* _check_auth: the status it raises, 200 when it returns
_check_auth(expected_user, expected_pass, credentials) ==
    IF expected_user = "" THEN 200
    ELSE IF credentials = PyNone THEN 401
    ELSE IF expected_pass = "" THEN 500
    ELSE IF ~CredentialsOk(credentials, expected_user, expected_pass) THEN 401
    ELSE 200

Answer(app, route, credential, status, ran) ==
    [app |-> app, route |-> route, credential |-> credential,
     status |-> status, ran |-> ran]

\* POST /api/generate of api_server: check_api_key, then check_rate_limit
\* (rate_ok: whether it lets the request pass), then the handler
ServerAuthRequest(header, rate_ok) ==
    LET auth == check_api_key(pf.api_key, header)
        status == IF auth # 200 THEN auth ELSE IF ~rate_ok THEN 429 ELSE 200
    IN
    /\ pf.st = "auth"
    /\ pf' = [pf EXCEPT !.last = Answer("api_server", "/api/generate", header,
                                         status, status = 200)]
    /\ UNCHANGED <<keyVars, storeVars, flowVars, wr, llm, ep, sx, rl>>

\* a request to a route of api
ApiAuthRequest(route, credentials) ==
    LET status == IF ApiProtected(route)
                  THEN _check_auth(pf.username, pf.password, credentials)
                  ELSE 200
    IN
    /\ pf.st = "auth"
    /\ pf' = [pf EXCEPT !.last = Answer("api", route, credentials,
                                         status, status = 200)]
    /\ UNCHANGED <<keyVars, storeVars, flowVars, wr, llm, ep, sx, rl>>

InitAuth ==
    /\ KeysIdle
    /\ StoreIdle
    /\ enabled = TRUE
    /\ hasKey = TRUE
    /\ FlowIdle
    /\ wr = WrIdle /\ llm = LlmIdle /\ ep = EpIdle /\ sx = SxIdle /\ rl = RlIdle
    /\ pf \in [st : {"auth"}, api_key : ApiKeys, username : ApiUsernames,
               password : ApiPasswords,
               last : {Answer("", "", PyNone, 0, FALSE)}]

NextAuth ==
    \/ \E header \in ApiKeyHeaders, rate_ok \in BOOLEAN : ServerAuthRequest(header, rate_ok)
    \/ \E route \in ApiRoutes, credentials \in Credentials : ApiAuthRequest(route, credentials)

SpecAuth == InitAuth /\ [][NextAuth]_vars

(***************************************************************************)
(* The three generation flows, one request after the other, with the cache *)
(* tree as it was when the request arrived kept in pf.before (history, not *)
(* program state).                                                         *)
(***************************************************************************)
\* the most requests in a behaviour of the three flows
MaxFlowRequests == 2

\* a request arrives at worker p
BeginRequest(p, r) ==
    /\ pc[p] = "idle"
    /\ nReq < MaxFlowRequests
    /\ nReq' = nReq + 1
    /\ pc' = [pc EXCEPT ![p] = r.entry]
    /\ req' = [req EXCEPT ![p] = r]
    /\ res' = [res EXCEPT ![p] = PyNone]
    /\ nCalls' = [nCalls EXCEPT ![p] = 0]
    /\ out' = [out EXCEPT ![p] = ""]
    /\ late' = [late EXCEPT ![p] = r \in completed]
    /\ pf' = [st |-> "request", before |-> files]
    /\ UNCHANGED <<completed, payers, fresh, latePaid, lastWriter>>
    /\ UNCHANGED <<keyVars, storeVars, wr, llm, ep, sx, rl>>

NextFailure ==
    \/ \E r \in Requests({"api", "qs", "csg"}, {"a"}, {"long", "shorts", "both"}) :
            BeginRequest(1, r)
    \/ GenLookup(1)
    \/ \E ok \in BOOLEAN : GenLlm(1, ok, "S1")
    \/ \E ioError \in BOOLEAN : GenStore(1, ioError)
    \/ CsgStart(1)
    \/ \E ok \in BOOLEAN, lines \in LongReplies, ioError \in BOOLEAN :
            CsgLongForm(1, ok, lines, ioError)
    \/ \E ok \in BOOLEAN, lines \in ShortsReplies, ioError \in BOOLEAN :
            CsgShorts(1, ok, lines, ioError)
    \/ CsgReturn(1)

SpecFailure == InitFlow /\ [][NextFailure]_vars

(***************************************************************************)
(* The cache keys of the shorts: ContentScriptGenerator._generate_shorts,  *)
(* cli._generate_shorts_for_preset and cli._extract_and_print_shorts.  A   *)
(* script text is the record of its characters 0..199 (a), 200..2999 (b),  *)
(* 3000..3999 (c) and the rest (d); the empty script has four empty parts. *)
(* pf holds two lookups of one function, then their keys and the inputs of *)
(* the generation each would run on a miss.                                *)
(***************************************************************************)
ScriptText(a, b, c, d) == [a |-> a, b |-> b, c |-> c, d |-> d]

NoScript == ScriptText("", "", "", "")

ScriptTexts ==
    {NoScript} \cup {ScriptText("Intro", b, "more", d) : b \in {"body 1", "body 2"},
                                                          d \in {"end 1", "end 2"}}

\* the cache_key of _generate_shorts
GenerateShortsKey(g) ==
    LET preset == CHOOSE n \in NichePresets : n.niche = g.niche IN
    << <<"type", PyStr("shorts")>>, <<"niche", PyStr(g.niche)>>,
       <<"theme", PyStr(g.theme)>>, <<"count", PyInt(preset.count)>>,
       <<"model", PyStr(TierModel(g.tier))>> >>

\* what the request of _generate_shorts to the LLM is built from: the preset
\* (system prompt, intro, name), count, theme, source[:3000], model and
\* max_tokens of the tier
GenerateShortsInputs(g) ==
    LET preset == CHOOSE n \in NichePresets : n.niche = g.niche
        source == IF g.long_script = NoScript THEN <<"Theme: " \o g.theme>>
                  ELSE <<g.long_script.a, g.long_script.b>>
    IN  <<g.niche, preset.count, g.theme, source, g.tier>>

\* basis_key of _generate_shorts_for_preset
BasisKey(g) ==
    << <<"type", PyStr("short_basis")>>, <<"topic", PyStr(g.theme)>>,
       <<"channel", PyStr(g.channel)>> >>

\* what its request is built from: preset.system_prompt, theme, num_shorts
BasisInputs(g) == <<g.channel, g.theme, g.num_shorts>>

\* shorts_key of _extract_and_print_shorts
ExtractKey(g) ==
    << <<"type", PyStr("shorts")>>, <<"script_prefix", PyStr(g.script.a)>>,
       <<"n", PyInt(g.num_shorts)>>, <<"channel", PyStr(g.channel)>> >>

\* what extract_shorts builds its request from: script[:4000] and the
\* clamped number of shorts
ExtractInputs(g) == <<g.script.a, g.script.b, g.script.c, ClampShorts(g.num_shorts)>>

\* the lookups of each function
ShortsLookups(fn) ==
    CASE fn = "_generate_shorts" ->
            [niche : {"finance", "devotion"}, tier : {"free", "low_cost"},
             theme : {"a", "b"}, long_script : ScriptTexts]
      [] fn = "_generate_shorts_for_preset" ->
            [channel : {"A", "B"}, theme : {"a", "b"}, num_shorts : {1, 4, 8}]
      [] fn = "_extract_and_print_shorts" ->
            [channel : {"A", "B"}, num_shorts : {4, 8, 9}, script : ScriptTexts \ {NoScript}]

\* the file a lookup resolves to
ShortsEntry(fn, g) ==
    CASE fn = "_generate_shorts" -> CacheManager_path(GenerateShortsKey(g), "scripts")
      [] fn = "_generate_shorts_for_preset" -> ContentCache_cache_file(BasisKey(g))
      [] fn = "_extract_and_print_shorts" -> ContentCache_cache_file(ExtractKey(g))

ShortsInputs(fn, g) ==
    CASE fn = "_generate_shorts" -> GenerateShortsInputs(g)
      [] fn = "_generate_shorts_for_preset" -> BasisInputs(g)
      [] fn = "_extract_and_print_shorts" -> ExtractInputs(g)

\* both lookups resolve their entry
ResolveEntries ==
    /\ pf.st = "lookups"
    /\ pf' = [st |-> "resolved", fn |-> pf.fn, x |-> pf.x, y |-> pf.y,
              entry_x |-> ShortsEntry(pf.fn, pf.x), entry_y |-> ShortsEntry(pf.fn, pf.y),
              inputs_x |-> ShortsInputs(pf.fn, pf.x), inputs_y |-> ShortsInputs(pf.fn, pf.y)]
    /\ UNCHANGED <<keyVars, storeVars, flowVars, wr, llm, ep, sx, rl>>

InitShortsKeys ==
    /\ KeysIdle
    /\ StoreIdle
    /\ enabled = TRUE
    /\ hasKey = TRUE
    /\ FlowIdle
    /\ wr = WrIdle /\ llm = LlmIdle /\ ep = EpIdle /\ sx = SxIdle /\ rl = RlIdle
    /\ \E fn \in {"_generate_shorts", "_generate_shorts_for_preset",
                  "_extract_and_print_shorts"} :
          \E x \in ShortsLookups(fn), y \in ShortsLookups(fn) :
              pf = [st |-> "lookups", fn |-> fn, x |-> x, y |-> y]

NextShortsKeys == ResolveEntries

SpecShortsKeys == InitShortsKeys /\ [][NextShortsKeys]_vars

(***************************************************************************)
(* Claims about the key functions.                                         *)
(***************************************************************************)
SamePairs(m1, m2) ==
    {m1[i] : i \in 1..Len(m1)} = {m2[i] : i \in 1..Len(m2)}

ValueOf(m, n) == (CHOOSE p \in {m[i] : i \in 1..Len(m)} : p[1] = n)[2]

KeysEqual == kOut.pc1 = kOut.pc2 /\ kOut.cm1 = kOut.cm2 /\ kOut.cc1 = kOut.cc2

KeysDiffer == kOut.pc1 # kOut.pc2 /\ kOut.cm1 # kOut.cm2 /\ kOut.cc1 # kOut.cc2

\* C2: a mapping and any reordering of its fields get the same key from
\* make_cache_key, CacheManager._make_key and ContentCache._key_hash.
C2_KeyOrderIndependent ==
    (kOut.done /\ SamePairs(kIn1, kIn2)) => KeysEqual

C2_Witness ==
    /\ kOut.done
    /\ SamePairs(kIn1, kIn2)
    /\ Len(kIn1) >= 2
    /\ kIn1 # kIn2
    /\ KeysEqual

AsKeyed(v) == IF v.t = "obj" THEN PyStr(v.repr) ELSE v

C5_BehavesAsMap ==
    \A e \in {x \in StoreTargets : x[1] \in {"pc", "cm"}} :
        GetBy(files, enabled, e[1], e[2], e[3]) =
            Returned(IF <<e[1], e[3], e[2]>> \in DOMAIN amap
                     THEN amap[<<e[1], e[3], e[2]>>] ELSE PyNone)

C5_Witness ==
    /\ lastOp.op = "clear" /\ lastOp.impl = "cm"
    /\ <<"cm", "scripts", K1>> \in DOMAIN amap
    /\ <<"cm", "shorts", K1>> \notin DOMAIN amap
    /\ <<"cm", "shorts", K1>> \notin DOMAIN files
    /\ <<"pc", "scripts", K2>> \in DOMAIN amap
    /\ CacheManager_get(files, K1, "scripts") = Returned(TestPayload)
    /\ CacheManager_get(files, K1, "shorts") = Returned(PyNone)

\* an entry file that does not hold what the implementation wrote
IsCorrupt(impl, c) ==
    \/ c.kind # "json"
    \/ impl # "cm" /\ c.doc.j # "object"

\* C6: get on a key never written, or on a corrupt or unreadable entry
\* file, returns absent and does not raise, in every implementation.
C6_GetNeverRaises ==
    \A impl \in Impls :
        LET p == PathBy(impl, K1, "scripts") IN
        (~Exists(files, p) \/ IsCorrupt(impl, files[p]))
        => GetBy(files, enabled, impl, K1, "scripts") = Returned(PyNone)

\* C8: a cache write that fails never raises to the caller: set returns
\* normally and the generation flow around it still returns its result.
C8_SetNeverRaises ==
    /\ lastOp.op = "set" => lastOp.exc = ""
    /\ \A p \in Procs : out[p] # "write_error"


(***************************************************************************)
(* Claims about the request flows.                                         *)
(***************************************************************************)
\* C1 as claimed: over sequential requests with the same configuration, paid
\* generation is invoked by at most one request.
C1_Original ==
    \A c \in DOMAIN payers : payers[c] <= 1

\* C1 as amended: over sequential requests with the same configuration, at
\* most one request completes a paid generation, and every request that starts
\* after a request of that configuration has completed successfully is
\* answered from the cache with zero LLM calls.  (A request whose generation
\* or cache write fails stores nothing, and the next one pays again.)
C1_AtMostOncePaidAfterSuccess ==
    /\ latePaid = {}
    /\ \A c \in DOMAIN fresh : fresh[c] <= 1
    /\ \A p \in Procs : (late[p] /\ pc[p] = "idle") => (out[p] = "cached" /\ nCalls[p] = 0)

C1_Witness ==
    /\ late[1] /\ pc[1] = "idle" /\ out[1] = "cached" /\ nCalls[1] = 0
    /\ Count(fresh, req[1]) = 1
    /\ Count(payers, req[1]) = 1
    /\ nReq >= 2

\* C7: with caching disabled by configuration no lookup returns an entry and
\* nothing is written.
C7_DisabledCacheIsInert ==
    ~enabled =>
        /\ files = EmptyFn
        /\ \A p \in Procs : out[p] # "cached"
        /\ lastOp.op = "get" => lastOp.val = PyNone

\* C10: no single-flight protection: when two requests for the same uncached
\* key overlap, both may miss and both pay for generation; the entry left in
\* the store is then the one of the last writer.
C10_LastWriterWins ==
    \A p \in Procs, q \in Procs :
        (/\ p # q
         /\ pc[p] = "idle" /\ out[p] = "fresh"
         /\ pc[q] = "idle" /\ out[q] = "fresh"
         /\ FlowPath(req[p]) = FlowPath(req[q])
         /\ lastWriter[FlowPath(req[p])] = p)
        => /\ nCalls[p] = CallsPerGeneration /\ nCalls[q] = CallsPerGeneration
           /\ get_cached(files, FlowKey(req[p]), FlowNs(req[p])) = Returned(res[p])

C10_Witness ==
    /\ pc[1] = "idle" /\ out[1] = "fresh"
    /\ pc[2] = "idle" /\ out[2] = "fresh"
    /\ req[1] = req[2]
    /\ res[1] # res[2]
    /\ Count(payers, req[1]) = 2
    /\ lastWriter[FlowPath(req[1])] = 2
    /\ get_cached(files, FlowKey(req[2]), FlowNs(req[2])) = Returned(res[2])

\* C9: with caching enabled, a second ContentScriptGenerator.generate with the
\* same niche, theme and model makes no LLM call, whatever the first run's
\* parsed result was.
C9_SecondGenerateMakesNoLlmCall ==
    \A p \in Procs :
        (enabled /\ late[p] /\ req[p].entry = "csg") => nCalls[p] = 0

(***************************************************************************)
(* Claims about a write in progress.                                       *)
(***************************************************************************)
\* C11: a cache write shows no partial state: a get for the key that runs
\* while a set for it is in progress returns the complete previous value
\* (absent if there was none) or the complete new value.
C11_NoPartialWriteVisible ==
    wr.busy =>
        GetBy(files, enabled, wr.impl, wr.m, wr.ns) \in {wr.prev, Returned(wr.v)}

(***************************************************************************)
(* Claims about call_llm and _call_openai.                                 *)
(***************************************************************************)
\* the provider at position k of the list can be called
Credentialed(k) ==
    llm.providers[k] \in KnownProviders /\ llm.providers[k] \in llm.creds

\* C12: call_llm tries providers strictly in the configured order: a provider
\* without credential is never called, a provider is called only after every
\* earlier credentialed provider of the list has failed, and the first
\* successful response is returned at once, no later provider being called.
C12_ProvidersInOrder ==
    (llm.st # "idle" /\ llm.fn = "call_llm") =>
        LET n == Len(llm.called) IN
        /\ \A j \in 1..n :
              /\ llm.called[j].p = llm.providers[llm.called[j].k]
              /\ Credentialed(llm.called[j].k)
              /\ \A k \in 1..(llm.called[j].k - 1) :
                    Credentialed(k) =>
                        \E h \in 1..(j - 1) :
                            llm.called[h].k = k /\ llm.called[h].outcome # "ok"
              /\ llm.called[j].outcome = "ok" => (j = n /\ llm.st = "returned")
        /\ llm.st = "returned" => (n > 0 /\ llm.called[n].outcome = "ok")

C12_Witness ==
    /\ llm.st = "returned" /\ llm.fn = "call_llm"
    /\ Len(llm.providers) = 3
    /\ llm.providers[1] = "gemini" /\ llm.providers[2] = "openai"
    /\ llm.creds = KnownProviders
    /\ Len(llm.called) = 2
    /\ llm.called[1].p = "gemini" /\ llm.called[2].p = "openai"

\* C13: call_llm raises only when no provider returned a response; when a
\* provider was attempted the error lists the error of every attempted
\* provider in attempt order, and when none was attempted it is the distinct
\* "No LLM provider is configured" error.
C13_AggregateError ==
    (llm.st = "raised" /\ llm.fn = "call_llm") =>
        LET n == Len(llm.called) IN
        /\ \A j \in 1..n : llm.called[j].outcome # "ok"
        /\ n > 0 =>
              llm.exc = "All LLM providers failed:\n" \o
                  Join("\n", [j \in 1..n |->
                      "  - " \o ErrorLine(llm.called[j].p, llm.called[j].outcome)])
        /\ n = 0 =>
              llm.exc = "No LLM provider is configured. Set OPENAI_API_KEY or GOOGLE_API_KEY in your .env file."

C13_Witness ==
    /\ llm.st = "raised" /\ llm.fn = "call_llm"
    /\ Len(llm.called) = 2
    /\ llm.called[1].p = "openai" /\ llm.called[1].outcome = "RateLimitError"
    /\ llm.called[2].p = "gemini" /\ llm.called[2].outcome = "APIError"

\* the number of calls up to the j-th that went to the same list position
AttemptsSoFar(j) ==
    Cardinality({h \in 1..j : llm.called[h].k = llm.called[j].k})

\* C14: after a rate-limit failure the same provider is retried, up to the
\* configured number of attempts, before the next provider is tried (or the
\* error is raised); any other failure is not retried.
C14_RateLimitRetried ==
    llm.st # "idle" =>
        \A j \in 1..Len(llm.called) :
            LET moved == IF j < Len(llm.called)
                         THEN llm.called[j + 1].k # llm.called[j].k
                         ELSE llm.st = "raised" \/ llm.i > llm.called[j].k
            IN
            /\ (llm.called[j].outcome = "RateLimitError"
                    /\ AttemptsSoFar(j) < llm.retries) => ~moved
            /\ llm.called[j].outcome = "APIError" => moved


(***************************************************************************)
(* Claims about the entry points.                                          *)
(***************************************************************************)
\* the run recorded in ep names something the entry point does not know
UnknownInput ==
    IF ep.entry = "api"
    THEN \/ ep.r.niche \notin NicheNames
         \/ ep.r.cost_tier \notin CsgTiers
         \/ ep.r.output_type \notin OutputTypes
    ELSE \/ ep.r.preset \notin ContentPresetNames
         \/ ep.r.tier \notin ServerTiers
         \/ ep.r.output \notin OutputTypes

Rejections == {"rejected", "ValueError", "validation_error"}

\* C15: a request to api.generate_script or api_server.generate that names an
\* unknown preset or niche, tier or output type is rejected, and the run made
\* no LLM call, no cache read and no cache write.
C15_UnknownRejected ==
    (ep.st = "done" /\ ep.entry \in {"api", "api_server"} /\ UnknownInput)
        => /\ ep.outcome \in Rejections
           /\ ep.llm = 0 /\ ep.reads = 0 /\ ep.writes = 0

\* the rejection holds for api.generate_script
C15_ApiRejects ==
    (ep.st = "done" /\ ep.entry = "api" /\ UnknownInput)
        => ep.code = 422 /\ ep.llm = 0 /\ ep.reads = 0 /\ ep.writes = 0

\* C16: a dry run of cli.run_pipeline (with or without --ideas), of
\* ContentScriptGenerator.generate or of api_server.generate makes no LLM call.
C16_DryRunNoLlm ==
    (ep.st = "done" /\ ep.entry \in {"cli", "csg", "api_server"} /\ ep.r.dry_run)
        => ep.llm = 0

\* without --ideas the dry runs make no LLM call
C16_DryRunNoLlmNoIdeas ==
    (ep.st = "done" /\ ep.entry \in {"cli", "csg", "api_server"} /\ ep.r.dry_run
       /\ (ep.entry = "cli" => ~ep.r.ideas))
        => ep.llm = 0

ServerDryRun == ep.st = "done" /\ ep.entry = "api_server" /\ ep.outcome = "estimate"

\* C17: the dry-run estimate of api_server.generate reports 3 API calls in
\* total for output long or both and 0 for output shorts, and its shorts
\* estimate requires 0 API calls whatever shorts_count is.
C17_DryRunCallTotals ==
    ServerDryRun =>
        /\ ep.r.output \in {"long", "both"} =>
               ep.est.kv["total_estimated_api_calls"] = PyInt(CallsPerGeneration)
        /\ ep.r.output = "shorts" => ep.est.kv["total_estimated_api_calls"] = PyInt(0)
        /\ ep.r.output \in {"shorts", "both"} =>
               ep.est.kv["shorts_estimate"].kv["api_calls_required"] = PyInt(0)

C17_Witness ==
    /\ ServerDryRun /\ ep.r.output = "both"
    /\ ep.est.kv["total_estimated_api_calls"] = PyInt(CallsPerGeneration)
    /\ ep.est.kv["shorts_estimate"].kv["api_calls_required"] = PyInt(0)

\* a dry run with shorts_count at the upper limit
C17_WitnessShorts ==
    /\ ServerDryRun /\ ep.r.output = "shorts" /\ ep.r.shorts_count = MaxShortsCount
    /\ ep.est.kv["total_estimated_api_calls"] = PyInt(0)

\* the dry run recorded in ep was asked with names the entry point knows
ValidDryRun ==
    /\ ep.st = "done" /\ ep.r.dry_run
    /\ CASE ep.entry = "qs"  -> KnownPreset(ep.r.preset)
         [] ep.entry = "csg" -> /\ NormaliseNiche(ep.r.niche) \in NicheNames
                                /\ ep.r.cost_tier \in CsgTiers
         [] ep.entry = "api_server" ->
                /\ KnownPreset(ep.r.preset)
                /\ ep.r.shorts_count \in MinShortsCount..MaxShortsCount
         [] OTHER -> FALSE

\* C18: with no credential configured a dry run completes: quick_start.main
\* returns 0, ContentScriptGenerator and api_server.generate return an
\* estimate.
C18_DryRunNeedsNoCredential ==
    (ValidDryRun /\ ~hasKey)
        => /\ ep.outcome = "estimate" /\ ep.est # PyNone
           /\ ep.entry = "qs" => ep.code = 0

C18_Witness ==
    /\ ValidDryRun /\ ~hasKey /\ ep.entry = "qs"
    /\ ep.outcome = "estimate" /\ ep.code = 0

(***************************************************************************)
(* Claims about the shorts.                                                *)
(***************************************************************************)
\* C19: ShortsExtractor.extract_shorts returns at most min(max(count, 1), 8)
\* shorts, whatever the reply of the LLM holds.
C19_AtMostClampedCount ==
    sx.st = "done" =>
        LET low == IF sx.num_shorts > 1 THEN sx.num_shorts ELSE 1
            bound == IF low < 8 THEN low ELSE 8
        IN  Len(sx.result.xs) <= bound

\* a reply with more blocks than the clamped count was cut to 8
C19_Witness ==
    /\ sx.st = "done" /\ sx.num_shorts = 10 /\ sx.blocks = MaxBlocks
    /\ sx.shape = "full" /\ Len(sx.result.xs) = 8

\* a reply with fewer blocks than asked for gives fewer shorts
C19_WitnessFewer ==
    /\ sx.st = "done" /\ sx.num_shorts = 4 /\ sx.blocks = 2 /\ sx.shape = "bare"
    /\ ~sx.preamble /\ Len(sx.result.xs) = 2

\* C20: the caption of a short is its hook when the hook has at most 60
\* characters, else the first 57 characters of the hook followed by the
\* ellipsis; it never has more than 63 characters.
C20_CaptionFromHook ==
    sx.st = "captioned" =>
        /\ Len(sx.hook) <= 60 => sx.caption = sx.hook
        /\ Len(sx.hook) > 60 =>
              /\ \A j \in 1..57 : sx.caption[j] = sx.hook[j]
              /\ \A j \in 58..Len(sx.caption) : sx.caption[j] = 0
              /\ Len(sx.caption) = 57 + Len(Ellipsis)
        /\ Len(sx.caption) <= 63

\* a hook of 61 characters was cut
C20_Witness ==
    /\ sx.st = "captioned" /\ Len(sx.hook) = 61
    /\ Len(sx.caption) = 60 /\ sx.caption[57] = 57 /\ sx.caption[58] = 0

\* a hook of exactly 60 characters is kept
C20_WitnessVerbatim ==
    sx.st = "captioned" /\ Len(sx.hook) = 60 /\ sx.caption = sx.hook

(***************************************************************************)
(* Claims about the script parsers.                                        *)
(***************************************************************************)
\* a header line as the parser is described: one of the labels, or SECTION
\* and a number
LabelHeader(l) == Upper(l.head) \in {"HOOK", "PROMISE", "RECAP", "CTA"} /\ l.colon

SectionHeader(l) == Upper(l.head) = "SECTION" /\ l.num # "" /\ l.colon

\* the text lines between header i and the next header of either kind
SpanOf(lines, i) ==
    LET heads == {j \in (i + 1)..Len(lines) :
                     LabelHeader(lines[j]) \/ SectionHeader(lines[j])}
        stop == IF heads = {} THEN Len(lines) + 1
                ELSE CHOOSE j \in heads : \A q \in heads : j <= q
        body == SubSeq(lines, i + 1, stop - 1)
        kept == SelectSeq(body, LAMBDA l : Stripped(l) # "")
    IN  [j \in 1..Len(kept) |-> Stripped(kept[j])]

LongFormParsed == pf.st = "parsed" /\ pf.parser = "_structure_long_form"

\* C21: every section _structure_long_form emits holds exactly the lines
\* between its SECTION header and the next header, HOOK, PROMISE, RECAP and
\* CTA lines being headers too: text after such a label is in no section.
C21_LabelsAreHeaders ==
    LongFormParsed =>
        \A k \in 1..Len(pf.out) :
            \E i \in 1..Len(pf.lines) :
                /\ SectionHeader(pf.lines[i])
                /\ pf.out[k].kv["title"] = PyStr(pf.lines[i].rest)
                /\ pf.out[k].kv["content"] = PyStr(Join(" ", SpanOf(pf.lines, i)))

\* with no label line in the text the sections are the spans of their headers
C21_WithoutLabels ==
    (LongFormParsed /\ \A i \in 1..Len(pf.lines) : ~LabelHeader(pf.lines[i]))
        => \A k \in 1..Len(pf.out) :
              \E i \in 1..Len(pf.lines) :
                  /\ SectionHeader(pf.lines[i])
                  /\ pf.out[k].kv["content"] = PyStr(Join(" ", SpanOf(pf.lines, i)))

\* C22: neither parser emits a section whose content is empty.
C22_NoEmptySection ==
    pf.st = "parsed" =>
        \A k \in 1..Len(pf.out) : pf.out[k].kv["content"] # PyStr("")

\* the last header of a text is dropped when nothing follows it
C22_LastHeaderDropped ==
    (pf.st = "parsed" /\ Len(pf.out) > 0)
        => \/ pf.out[Len(pf.out)].kv["content"] # PyStr("")
           \/ \E i \in 1..Len(pf.lines) :
                 /\ pf.lines[i].head \in {"SECTION", "SEGMENT"}
                 /\ \E j \in (i + 1)..Len(pf.lines) :
                       pf.lines[j].head \in {"SECTION", "SEGMENT"}

(***************************************************************************)
(* Claims about the cost estimators.                                       *)
(***************************************************************************)
\* the amounts of money of an estimate
Amounts(e, f) ==
    IF f = "estimate_costs"
    THEN {e.script_generation, e.shorts_extraction, e.titles_thumbnails,
          e.tts_narration, e.total_usd}
    ELSE {e.estimated_cost_usd, e.estimated_input_tokens, e.estimated_output_tokens}

C23_WitnessGenerator ==
    /\ pf.st = "twice" /\ pf.args.f = "estimate_cost" /\ pf.args.output = "both"
    /\ pf.first.estimated_cost_usd > 0

(***************************************************************************)
(* Claims about the rate limiter.                                          *)
(***************************************************************************)
\* the accepted requests of the ip of decision i among the first k decisions
\* that lie less than a window before decision i
AcceptedBefore(i, k) ==
    {j \in 1..k : /\ rl.hist[j].status = 200
                  /\ rl.hist[j].ip = rl.hist[i].ip
                  /\ rl.hist[i].t - rl.hist[j].t < Window}

\* how often x occurs in the sequence q
Occurrences(q, x) == Cardinality({j \in 1..Len(q) : q[j] = x})

\* C24: with requests handled one after the other, an IP has at most
\* RATE_LIMIT_PER_MINUTE accepted requests in any 60-second window; a request
\* is rejected with 429 exactly when its own IP has used up the limit, and a
\* rejected request is not recorded in the log.
C24_RateLimitPerIp ==
    rl.st = "run" =>
        /\ \A i \in 1..Len(rl.hist) :
              /\ rl.hist[i].status = 200 =>
                    Cardinality(AcceptedBefore(i, i)) <= RateLimitPerMinute
              /\ rl.hist[i].status = 429 <=>
                    Cardinality(AcceptedBefore(i, i - 1)) >= RateLimitPerMinute
        /\ \A ip \in ClientIps : \A j \in 1..Len(rl.log[ip]) :
              Occurrences(rl.log[ip], rl.log[ip][j]) =
                  Cardinality({k \in 1..Len(rl.hist) :
                      rl.hist[k] = Decision(ip, rl.log[ip][j], 200)})

\* an IP at its limit is refused while another IP is still served
C24_Witness ==
    /\ rl.st = "run" /\ Len(rl.hist) >= 4
    /\ \E i, j \in 1..Len(rl.hist) :
          /\ i < j /\ rl.hist[i].status = 429 /\ rl.hist[j].status = 200
          /\ rl.hist[i].ip # rl.hist[j].ip /\ rl.hist[i].t = rl.hist[j].t

\* a request is served again once the window has passed
C24_WitnessWindow ==
    /\ rl.st = "run"
    /\ \E i, j \in 1..Len(rl.hist) :
          /\ i < j /\ rl.hist[i].status = 429 /\ rl.hist[j].status = 200
          /\ rl.hist[i].ip = rl.hist[j].ip

\* C30: with requests handled concurrently an IP still has at most
\* RATE_LIMIT_PER_MINUTE accepted requests in any 60-second window, and the
\* timestamp of every accepted request that is less than a window old is in
\* the log.
C30_RateLimitConcurrent ==
    rl.st = "run" =>
        /\ \A i \in 1..Len(rl.hist) :
              rl.hist[i].status = 200 =>
                  Cardinality(AcceptedBefore(i, Len(rl.hist))) <= RateLimitPerMinute
        /\ \A i \in 1..Len(rl.hist) :
              (rl.hist[i].status = 200 /\ rl.clock - rl.hist[i].t < Window) =>
                  Occurrences(rl.log[rl.hist[i].ip], rl.hist[i].t) >=
                      Cardinality({k \in 1..Len(rl.hist) : rl.hist[k] = rl.hist[i]})

\* the limit alone, under concurrency
C30_LimitOnly ==
    rl.st = "run" =>
        \A i \in 1..Len(rl.hist) :
            rl.hist[i].status = 200 =>
                Cardinality(AcceptedBefore(i, Len(rl.hist))) <= RateLimitPerMinute

\* no accepted timestamp is lost, under concurrency
C30_NothingLost ==
    rl.st = "run" =>
        \A i \in 1..Len(rl.hist) :
            (rl.hist[i].status = 200 /\ rl.clock - rl.hist[i].t < Window) =>
                Occurrences(rl.log[rl.hist[i].ip], rl.hist[i].t) >=
                    Cardinality({k \in 1..Len(rl.hist) : rl.hist[k] = rl.hist[i]})

(***************************************************************************)
(* Claims about the credential checks.                                     *)
(***************************************************************************)
\* C25: with API_KEY configured, api_server answers 401 and runs no handler
\* unless X-API-Key equals it; with API_USERNAME configured, a protected
\* handler of api runs only for credentials whose username and password both
\* match; without the configuration the credential check admits every request.
C25_OnlyMatchingCredential ==
    pf.st = "auth" =>
        /\ (pf.last.app = "api_server" /\ Truthy(pf.api_key)
                /\ pf.last.credential # pf.api_key) =>
              (pf.last.status = 401 /\ ~pf.last.ran)
        /\ (pf.last.app = "api_server" /\ ~Truthy(pf.api_key)) =>
              pf.last.status # 401
        /\ (pf.last.app = "api" /\ ApiProtected(pf.last.route)
                /\ pf.username # "" /\ pf.last.ran) =>
              pf.last.credential = BasicCredentials(pf.username, pf.password)
        /\ (pf.last.app = "api" /\ pf.username = "") => pf.last.ran

\* a wrong key was refused by api_server
C25_Witness ==
    /\ pf.st = "auth" /\ pf.last.app = "api_server"
    /\ pf.api_key = PyStr("s3cret") /\ pf.last.credential = PyStr("S3CRET")
    /\ pf.last.status = 401

\* a right username with a wrong password was refused by api
C25_WitnessBasic ==
    /\ pf.st = "auth" /\ pf.last.app = "api" /\ pf.last.route = "/generate"
    /\ pf.username = "admin" /\ pf.password = "pa55"
    /\ pf.last.credential = BasicCredentials("admin", "pa5")
    /\ pf.last.status = 401 /\ ~pf.last.ran

\* the matching credentials were admitted
C25_WitnessAdmitted ==
    /\ pf.st = "auth" /\ pf.last.app = "api" /\ ApiProtected(pf.last.route)
    /\ pf.username = "admin" /\ pf.last.ran

(***************************************************************************)
(* Claims about _call_openai under any tier configuration.                 *)
(***************************************************************************)
\* C26: for any max_retries _call_openai makes at most max(1, max_retries)
\* provider calls and ends by returning the response text or by raising; it
\* never returns "" in place of a response, a rate-limit failure on the last
\* attempt being raised.
C26_RetryEndsInTextOrRaise ==
    (llm.st # "idle" /\ llm.fn = "_call_openai") =>
        LET n == Len(llm.called) IN
        /\ n <= Max(1, llm.retries)
        /\ llm.st = "returned" =>
              (n > 0 /\ llm.called[n].outcome = "ok" /\ llm.val = "text")
        /\ (n = Max(1, llm.retries) /\ llm.called[n].outcome = "RateLimitError") =>
              llm.st = "raised"

\* the same for the retry counts of COST_TIERS and for a missing max_retries
C26_ShippedTiers ==
    (llm.st # "idle" /\ llm.fn = "_call_openai" /\ llm.retries >= 1) =>
        LET n == Len(llm.called) IN
        /\ n <= llm.retries
        /\ llm.st = "returned" =>
              (n > 0 /\ llm.called[n].outcome = "ok" /\ llm.val = "text")
        /\ (n = llm.retries /\ llm.called[n].outcome = "RateLimitError") =>
              llm.st = "raised"

\* the last of three attempts was rate-limited and the error raised
C26_WitnessRaised ==
    /\ llm.st = "raised" /\ llm.fn = "_call_openai" /\ llm.retries = 3
    /\ Len(llm.called) = 3 /\ llm.called[3].outcome = "RateLimitError"

(***************************************************************************)
(* Claims about the text before the first SHORT marker.                    *)
(***************************************************************************)
\* C27: ShortsExtractor._parse_shorts drops the text before the first
\* 'SHORT N:' marker: the shorts of a reply are those of the same reply
\* without its leading text.
C27_LeadingTextDropped ==
    sx.st = "done" =>
        sx.result = ShortsExtractor_parse_shorts(
                        RawReply(FALSE, sx.shape, sx.blocks), sx.asked)

\* without leading text every short comes from a marked block
C27_WithoutLeadingText ==
    (sx.st = "done" /\ ~sx.preamble) =>
        /\ Len(sx.result.xs) <= sx.blocks
        /\ sx.result = ShortsExtractor_parse_shorts(ReplyBlocks(sx.shape, sx.blocks), sx.asked)

(***************************************************************************)
(* Claims about a generation that fails.                                   *)
(***************************************************************************)
\* the request of worker 1 has ended in a failure
RequestFailed ==
    pf.st = "request" /\ pc[1] = "idle" /\ out[1] \notin {"", "cached", "fresh"}

\* the tree before the request plus the long-form entry of the request
WithLongForm(lines) ==
    CacheManager_set(pf.before, LongFormKey(req[1].theme),
                     _structure_long_form(lines, req[1].theme), "scripts", FALSE).files

\* every entry of api_server.generate and quick_start.generate_long in the
\* cache (the files with an envelope) holds the result of all three calls
EntriesComplete ==
    \A path \in DOMAIN files :
        LET v == JsonLoad(files[path]) IN
        (v.exc = "" /\ v.val.t = "dict" /\ "value" \in DOMAIN v.val.kv) =>
            /\ v.val.kv["value"].t = "dict"
            /\ {"long_script", "titles", "thumbnail_texts"}
                   \subseteq DOMAIN v.val.kv["value"].kv

C28_WitnessLongForm ==
    /\ RequestFailed /\ req[1].entry = "csg" /\ out[1] = "llm_error"
    /\ nCalls[1] = 1 /\ req[1].output = "long" /\ files = pf.before

\* the shorts call raised after the long-form entry was written
C28_WitnessBoth ==
    /\ RequestFailed /\ req[1].entry = "csg" /\ out[1] = "llm_error"
    /\ files # pf.before

(***************************************************************************)
(* Claims about the cache keys of the shorts.                              *)
(***************************************************************************)
\* C29: two lookups of _generate_shorts, _generate_shorts_for_preset or
\* _extract_and_print_shorts whose generation inputs differ (script text,
\* number of shorts, model) never resolve to the same cache entry.
C29_KeyCoversInputs ==
    pf.st = "resolved" =>
        (pf.inputs_x # pf.inputs_y => pf.entry_x # pf.entry_y)

\* the part that holds: lookups that differ in a field of the key (theme,
\* niche, model, channel, first 200 characters, n) resolve to different entries
C29_KeyFieldsSeparate ==
    pf.st = "resolved" =>
        /\ pf.fn = "_generate_shorts" =>
              ((pf.x.theme # pf.y.theme \/ pf.x.niche # pf.y.niche
                    \/ pf.x.tier # pf.y.tier) => pf.entry_x # pf.entry_y)
        /\ pf.fn = "_generate_shorts_for_preset" =>
              ((pf.x.theme # pf.y.theme \/ pf.x.channel # pf.y.channel)
                    => pf.entry_x # pf.entry_y)
        /\ pf.fn = "_extract_and_print_shorts" =>
              ((pf.x.num_shorts # pf.y.num_shorts \/ pf.x.channel # pf.y.channel
                    \/ pf.x.script.a # pf.y.script.a) => pf.entry_x # pf.entry_y)

\* two lookups of fn with different generation inputs share an entry
SharedEntry(fn) ==
    /\ pf.st = "resolved" /\ pf.fn = fn
    /\ pf.inputs_x # pf.inputs_y /\ pf.entry_x = pf.entry_y

\* _generate_shorts: with and without a long script, or with two long scripts
C29_SharedByLongScripts ==
    /\ SharedEntry("_generate_shorts")
    /\ pf.x.long_script = NoScript /\ pf.y.long_script # NoScript

\* _generate_shorts_for_preset: two numbers of shorts
C29_SharedByCounts ==
    /\ SharedEntry("_generate_shorts_for_preset")
    /\ pf.x.num_shorts # pf.y.num_shorts

\* _extract_and_print_shorts: two scripts equal in their first 200 characters
C29_SharedByPrefix ==
    /\ SharedEntry("_extract_and_print_shorts")
    /\ pf.x.script.b # pf.y.script.b

====
